---- MODULE Spec2Model ----
(***************************************************************************)
(* A model of the stratum step executor (src/src/stratum/executor.py):     *)
(* execute_infer with its retry loop, the Budget envelope, the session and *)
(* global caches, the flow context and the in-memory trace log.            *)
(*                                                                         *)
(* Invocations of execute_infer are asyncio tasks: everything between two  *)
(* awaits is one atomic step, and the only await of execute_infer is the   *)
(* provider call (litellm.acompletion).  An invocation therefore takes one *)
(* step from its entry to its first provider call (or to its return or     *)
(* raise), and one step per provider response, up to the next provider     *)
(* call (or to its return or raise).                                       *)
(*                                                                         *)
(* Time is the monotonic clock in milliseconds; remaining_seconds is kept  *)
(* in the same unit (the code divides by 1000.0, which preserves order).   *)
(***************************************************************************)
EXTENDS Integers, Sequences, FiniteSets, TLC

\* ------------------------------------------------------------------ bounds
MaxRetries == 2     \* the retry ceiling of the declared steps
MaxCost == 2        \* the largest cost one provider call reports
MaxFlows == 2       \* flow executions in one behaviour
MaxBranches == 3    \* branches (coroutines) handed to one primitive
MaxAgents == 2      \* agents of one debate
MaxRounds == 2      \* rounds of one debate
MaxIterations == 3  \* the max_iterations of a refine-wrapped step
MaxResolves == 3    \* calls of PendingReview.resolve on one review
MaxStepRetries == 2 \* the retries ceiling of a controller function
MaxAttempts == 3    \* step_done calls made for one controller step
MaxTrace == 3       \* trace records after which no frame is reused

\* Python's None, for optional numbers (Budget.ms, Budget.usd, timeouts).
None == -1

\* The invocations of execute_infer a behaviour follows: an earlier and a
\* later one (they may overlap).
Calls == {1, 2}
FlowIds == 1..MaxFlows
NoFlow == 0

\* Classes of provider output: 0 makes `conf_ok` raise and `positive` false,
\* 1 passes the loose threshold only, 2 passes every postcondition.
Values == {0, 1, 2}

\* What can go wrong between the response and the typed value
\* (tool-call extraction, json.loads, instantiate).
ParseErrors == {"extract", "json", "inst"}

\* What parsing makes of a provider response: a parse-class failure reason or
\* a typed value.
Responses == (ParseErrors \X {0}) \cup ({"ok"} \X Values)

\* Input bindings: one argument `x`, a list or a tuple of items.
Inputs ==
    { [kind |-> "list", items |-> 1],
      [kind |-> "tuple", items |-> 1],
      [kind |-> "list", items |-> 2] }

\* ------------------------------------------------------------------ Budget
NoBudget == [ms |-> None, usd |-> None, start_ms |-> None, spent_usd |-> None]

Budget(ms, usd, t) == [ms |-> ms, usd |-> usd, start_ms |-> t, spent_usd |-> 0]

Max(a, b) == IF a >= b THEN a ELSE b

remaining_seconds(b, t) ==
    IF b.ms = None THEN None ELSE Max(0, b.ms - (t - b.start_ms))

record_cost_mut(b, usd) == [b EXCEPT !.spent_usd = usd]

record_cost(b, usd) == [b EXCEPT !.spent_usd = @ + usd]

is_cost_exceeded_mut(b) ==
    IF b.usd = None THEN FALSE ELSE b.spent_usd > b.usd

is_cost_exceeded(b) ==
    IF b.usd = None THEN FALSE ELSE b.spent_usd >= b.usd

clone(b, t) == Budget(b.ms, b.usd, t)

\* ------------------------------------------------------------------ steps
\* The declared steps (InferSpec).  `budget` is the declaration's Budget
\* (its clock is reset by clone on every invocation).
StepNames == {"classify", "extract"}

InferSpec(s) ==
    IF s = "classify"
    THEN [ ensure |-> <<"conf_ok">>,
           given |-> <<"is_list">>,
           budget |-> NoBudget,
           retries |-> MaxRetries,
           cache |-> "session",
           c_hash |-> "h1" ]
    ELSE [ ensure |-> <<"positive", "conf_ok">>,
           given |-> << >>,
           budget |-> Budget(2, 1, 0),
           retries |-> MaxRetries,
           cache |-> "global",
           c_hash |-> "h2" ]

\* Budgets a flow can be declared with.
FlowBudgets == {NoBudget, Budget(1, 2, 0)}

\* ------------------------------------------------------------------ predicates
\* A precondition on the inputs: "true", "false" or "raise".
given_fn(name, inputs) ==
    IF name = "is_list"
    THEN (IF inputs.kind = "list" THEN "true" ELSE "false")
    ELSE "true"

\* A postcondition on a value.  `conf_ok` is a lambda that reads a threshold
\* the program can change between calls; `positive` is a named function.
ensure_fn(name, value, threshold) ==
    IF name = "positive"
    THEN (IF value > 0 THEN "true" ELSE "false")
    ELSE IF value = 0 THEN "raise"
         ELSE IF value >= threshold THEN "true" ELSE "false"

\* The violation string of postcondition i (1-based) with outcome `ok`.
violation(name, i, ok) ==
    IF ok = "raise" THEN <<"raised", i>>
    ELSE IF name = "positive" THEN <<"was_false", i>>
    ELSE <<"failed", i>>

RECURSIVE violations_from(_, _, _, _)
violations_from(ensure, i, value, threshold) ==
    IF i > Len(ensure) THEN << >>
    ELSE LET ok == ensure_fn(ensure[i], value, threshold)
             rest == violations_from(ensure, i + 1, value, threshold)
         IN  IF ok = "true" THEN rest
             ELSE <<violation(ensure[i], i, ok)>> \o rest

\* The violations of one value, in declaration order (the loop of step j).
violations(ensure, value, threshold) ==
    violations_from(ensure, 1, value, threshold)

\* _run_ensure on a cached value: the violations PostconditionFailed carries
\* (empty when it returns normally).
run_ensure_mut(ensure, value, threshold) == << >>

run_ensure(ensure, value, threshold) ==
    violations_from(ensure, 1, value, threshold)

\* TRUE when some precondition raises or returns false.
given_fails_mut(given, inputs) == FALSE

given_fails(given, inputs) ==
    \E i \in 1..Len(given) : given_fn(given[i], inputs) # "true"

\* ------------------------------------------------------------------ cache keys
\* json.dumps(inputs, sort_keys=True, default=str): a list and a tuple of the
\* same items are the same JSON array.  sha256(...)[:16] is taken as
\* injective on the canonical strings of the model.
inputs_hash(inputs) == inputs.items

session_key(s, inputs) == <<s, inputs_hash(inputs)>>

global_key(s, inputs) == <<s, inputs_hash(inputs), InferSpec(s).c_hash>>

\* dict operations
EmptyDict == [k \in {} |-> None]

Put(d, k, v) == [x \in (DOMAIN d) \cup {k} |-> IF x = k THEN v ELSE d[x]]

\* ------------------------------------------------------------------ prompt
\* compile_prompt: the parts of the prompt that vary in the model are the
\* step's intent, the input bindings and the `Previous attempt failed:` block.
compile_prompt(s, inputs, retry_reasons) ==
    [intent |-> s, inputs |-> inputs, feedback |-> retry_reasons]

NoPrompt == [intent |-> "", inputs |-> [kind |-> "", items |-> 0], feedback |-> << >>]

\* ------------------------------------------------------------------ branches
\* The coroutines handed to parallel / race, or the execute_infer tasks of a
\* quorum step, in input order.
Branches == 1..MaxBranches

\* Values of the agree-on field.  Two values of different types can have the
\* same string rendering (the enum member and the string "yes").
Labels ==
    { [type |-> "str", text |-> "yes"],
      [type |-> "str", text |-> "no"],
      [type |-> "enum", text |-> "yes"] }

str(v) == v.text

\* Branch outputs.  A "vote" has a confidence attribute, a "tag" has none
\* (confidence = None stands for the missing attribute).
Shapes == {"vote", "tag"}

Outputs(shape) ==
    IF shape = "vote"
    THEN [label : Labels, confidence : {1, 2}]
    ELSE [label : Labels, confidence : {None}]

NoValue == [label |-> [type |-> "", text |-> ""], confidence |-> None]

\* Exception objects: the exception raised by branch i, and the exceptions
\* the primitives build.
NoExc == [type |-> "", by |-> 0, args |-> << >>]

BranchError(i) == [type |-> "BranchError", by |-> i, args |-> << >>]

ExceptionGroup(errors) == [type |-> "ExceptionGroup", by |-> 0, args |-> errors]

ConsensusFailure(quorum, threshold_n, all_outputs) ==
    [type |-> "ConsensusFailure", by |-> 0, args |-> <<quorum, threshold_n, all_outputs>>]

RuntimeError == [type |-> "RuntimeError", by |-> 0, args |-> << >>]

CancelledError == [type |-> "CancelledError", by |-> 0, args |-> << >>]

ParallelValidationFailed == [type |-> "ParallelValidationFailed", by |-> 0, args |-> << >>]

\* The wrappers of parallel(require=0) around an element of the gather
\* result (a value or an exception object).
Success(r) == [kind |-> "Success", value |-> r]

Failure(r) == [kind |-> "Failure", value |-> r]

\* The `validate` arguments tried: none, `lambda rs: True`, and
\* `lambda rs: not any(isinstance(r, Failure) for r in rs)`.
Validators == {"none", "always", "no_failure"}

validate_fn(name, results) ==
    IF name = "no_failure"
    THEN \A k \in DOMAIN results : results[k].kind # "Failure"
    ELSE TRUE

\* An asyncio task: its state and its result() or exception().
UnusedBranch == [state |-> "unused", value |-> NoValue, exc |-> NoExc]

\* The frame of a primitive that has not been called.  `completed` lists the
\* branches in the order in which they finished; `cancel_requested` is set
\* once cancel() was called on the task that awaits the primitive.
IdlePrim ==
    [ mode |-> "none", pc |-> "idle", n |-> 0, require |-> 0, shape |-> "tag",
      pending |-> {}, winner |-> 0, last_exc |-> NoExc, aborting |-> FALSE,
      completed |-> << >>, result |-> << >>, exc |-> NoExc,
      validate |-> "none", cancel_requested |-> FALSE ]

\* ------------------------------------------------------------------ debate
Agents == 1..MaxAgents

\* What an agent can return: outputs that agree on the `label` field and
\* differ as a whole, and outputs that differ on it.
DebateOutputs ==
    { [label |-> [type |-> "str", text |-> "yes"], confidence |-> 1],
      [label |-> [type |-> "str", text |-> "yes"], confidence |-> 2],
      [label |-> [type |-> "str", text |-> "no"], confidence |-> 1] }

\* str(a) of a whole output.
render(a) == <<a.label.type, a.label.text, a.confidence>>

\* The task of an agent call and the keyword arguments of the call: the
\* names passed and their values (previous_arguments = << >> when it is not
\* passed).
IdleAgent ==
    [ state |-> "unused", value |-> NoValue,
      kwargs |-> [keys |-> {}, topic |-> "", previous_arguments |-> << >>] ]

\* The frame of debate.  `agree_on[i]` is agents[i]._stratum_spec.agree_on
\* ("" when the agent declares none); `synthesize_calls` lists the keyword
\* arguments of the calls of synthesize and what each call returned.
IdleDebate ==
    [ pc |-> "idle", n |-> 0, topic |-> "", rounds |-> 0, agree_on |-> << >>,
      round |-> 0, task |-> [i \in Agents |-> IdleAgent], history |-> << >>,
      synthesize_calls |-> << >>, result |-> None, exc |-> NoExc ]

\* ------------------------------------------------------------------ refine
\* The frame of the wrapper of a refine-wrapped step.  `calls` lists the
\* context of the spec handed to each execute_infer call, `cache_hits`
\* whether the call was served from the cache, `feedback_calls` the outputs
\* `feedback` was called on.  `cache` is the cache policy of the wrapped
\* step and `cached` the cache entry under the key of the call's inputs
\* (None when there is none).
IdleRefine ==
    [ pc |-> "idle", max_iterations |-> 0, extra_context |-> << >>,
      history |-> << >>, calls |-> << >>, cache_hits |-> << >>,
      feedback_calls |-> << >>, cache |-> "none", cached |-> None,
      result |-> None, exc |-> NoExc ]

ConvergenceFailure(function_name, max_iterations, history) ==
    [type |-> "ConvergenceFailure", by |-> 0,
     args |-> <<function_name, max_iterations, history>>]

\* ------------------------------------------------------------------ hitl
\* Decision values and fallback values, each with the name of its Python
\* type; the string "raise" is the on_timeout policy of raising.
DecisionValues ==
    { [type |-> "str", text |-> "approve"],
      [type |-> "str", text |-> "reject"],
      [type |-> "int", text |-> "1"] }

Raise == [type |-> "str", text |-> "raise"]

HumanDecision(value, reviewer, rationale, review_id) ==
    [value |-> value, reviewer |-> reviewer, rationale |-> rationale,
     review_id |-> review_id]

HITLTimeoutError(review_id) ==
    [type |-> "HITLTimeoutError", by |-> 0, args |-> <<review_id>>]

\* The frame of await_human with the PendingReview it emits.  `future` is
\* review._future; `timeout` is None or the configured delay; `must_cancel`
\* is set when the timeout's timer has cancelled the suspended task;
\* `resolves` lists, for each call of review.resolve, the decision and
\* whether the call raised TypeError, set the future or did nothing.
IdleReview ==
    [ pc |-> "idle", review_id |-> 0, decision_type |-> "", timeout |-> None,
      on_timeout |-> Raise,
      future |-> [state |-> "none",
                  result |-> HumanDecision([type |-> "", text |-> ""], "", "", 0)],
      must_cancel |-> FALSE, resolves |-> << >>,
      result |-> HumanDecision([type |-> "", text |-> ""], "", "", 0), exc |-> NoExc ]

\* ------------------------------------------------------------------ controller
\* The steps of a flow definition, in the order the flow lists them; a flow
\* of n steps has the first n.  "ghost" is an id no step has.
StepOrder == <<"a", "b", "c">>

StepIds == {StepOrder[k] : k \in DOMAIN StepOrder}

\* The results a driver reports: with the `text` field the output schema
\* requires and the ensure expression `result.text != ''` reads, filled or
\* empty, or without it.  NoResult stands for a missing dict entry.
Results ==
    { [fields |-> {"text"}, text |-> "x"],
      [fields |-> {"text"}, text |-> ""],
      [fields |-> {}, text |-> ""] }

NoResult == [fields |-> {"unset"}, text |-> ""]

NoResponse ==
    [status |-> "", error_type |-> "", step_id |-> "", retries_remaining |-> 0,
     violations |-> << >>, steps_completed |-> 0]

\* The controller: the stored FlowState (status "active"), the flow
\* definition it was planned from, and the last request and response.
\* flow.unresolvable holds the steps with an input `$.input.<field>` whose
\* field the flow inputs do not have.
IdleCtl ==
    [ status |-> "none",
      flow |-> [n |-> 0, depends_on |-> [id \in StepIds |-> {}],
                refs |-> [id \in StepIds |-> {}],
                retries |-> [id \in StepIds |-> 1],
                output_schema |-> [id \in StepIds |-> FALSE],
                unresolvable |-> {}],
      ordered_steps |-> << >>, current_idx |-> 0,
      step_outputs |-> [id \in StepIds |-> NoResult],
      attempts |-> [id \in StepIds |-> 0], records |-> << >>,
      ensure_evaluated |-> FALSE,
      request |-> [step_id |-> "", result |-> NoResult],
      response |-> NoResponse ]

\* ------------------------------------------------------------------ state
VARIABLES
    now,                    \* time.monotonic(), in ms
    threshold,              \* the state the `conf_ok` postcondition reads
    flows,                  \* flow id -> _FlowContext (and whether it is active)
    process_session_cache,  \* executor._process_session_cache
    global_cache,           \* executor._global_cache
    records,                \* trace._records
    call,                   \* invocation -> the frame of execute_infer
    flow_ctx,               \* task -> the value of decorators._flow_ctx in its context
    branch,                 \* branch -> the asyncio task of a primitive's branch
    prim,                   \* the frame of the running primitive (parallel, race, quorum)
    dbt,                    \* the frame of debate and its agents' tasks
    rfn,                    \* the frame of a refine-wrapped step
    review,                 \* the frame of await_human and its PendingReview
    ctl                     \* the controller's FlowState and the last response

vars == <<now, threshold, flows, process_session_cache, global_cache, records, call,
          flow_ctx, branch, prim, dbt, rfn, review, ctl>>

\* The variables of the step executor.
exec_vars == <<now, threshold, flows, process_session_cache, global_cache, records, call,
               flow_ctx>>

\* The variables of the concurrency primitives.
prim_vars == <<branch, prim>>

\* The variables of debate, refine, await_human and the controller.
ext_vars == <<dbt, rfn, review, ctl>>

NoInputs == [kind |-> "", items |-> 0]

NoArgs == [violations |-> << >>, retry_history |-> << >>]

\* The frame of an invocation that has not started.  `calls_made` counts the
\* awaits of litellm.acompletion; `exc` and `exc_args` are the exception that
\* reached the caller; `result` is the value returned; `spans` counts the
\* calls of the configured tracer hook.
IdleCall ==
    [ pc |-> "idle", step |-> "", inputs |-> NoInputs, ctx |-> NoFlow,
      kind |-> "none", own |-> NoBudget, attempt |-> 0,
      retry_reasons |-> << >>, all_retry_reasons |-> << >>,
      retry_history |-> << >>, total_cost |-> 0,
      last_failure_was_parse |-> TRUE, last_prompt |-> NoPrompt,
      deadline |-> None, calls_made |-> 0, cache_hit |-> FALSE, spans |-> 0,
      result |-> None, exc |-> "", exc_args |-> NoArgs ]

\* A flow execution that has not begun.  `task` is the task that runs the
\* wrapper (0: none) and `token` the value _flow_ctx.set found in its context.
UnusedFlow ==
    [state |-> "unused", budget |-> NoBudget, session_cache |-> EmptyDict,
     task |-> 0, token |-> NoFlow]

Init ==
    /\ now = 0
    /\ threshold = 1
    /\ flows = [f \in FlowIds |-> UnusedFlow]
    /\ process_session_cache = EmptyDict
    /\ global_cache = EmptyDict
    /\ records = << >>
    /\ call = [c \in Calls |-> IdleCall]
    /\ flow_ctx = [t \in FlowIds |-> NoFlow]
    /\ branch = [i \in Branches |-> UnusedBranch]
    /\ prim = IdlePrim
    /\ dbt = IdleDebate
    /\ rfn = IdleRefine
    /\ review = IdleReview
    /\ ctl = IdleCtl

\* ------------------------------------------------------------------ helpers
\* _get_session_cache() in the context of flow f (NoFlow: the process map).
get_session_cache_mut(f) == process_session_cache

get_session_cache(f) ==
    IF f # NoFlow THEN flows[f].session_cache ELSE process_session_cache

\* The cache a step's policy selects, and the key it uses there.
cache_of(s, f) ==
    IF InferSpec(s).cache = "session" THEN get_session_cache(f)
    ELSE IF InferSpec(s).cache = "global" THEN global_cache
    ELSE EmptyDict

key_of(s, inputs) ==
    IF InferSpec(s).cache = "session" THEN session_key(s, inputs)
    ELSE global_key(s, inputs)

\* Which envelope is the effective budget: the step's own clone, the flow's
\* shared budget, or none.
budget_kind(spec_budget, flow_budget) ==
    IF spec_budget # NoBudget THEN "own"
    ELSE IF flow_budget # NoBudget THEN "flow"
    ELSE "none"

\* The effective budget of a started invocation with frame cr, given the
\* flow contexts fl.
budget_at(cr, fl) ==
    IF cr.kind = "own" THEN cr.own
    ELSE IF cr.kind = "flow" THEN fl[cr.ctx].budget
    ELSE NoBudget

budget_of(cr) == budget_at(cr, flows)

\* The check at the top of every attempt: TRUE when BudgetExceeded is raised.
budget_exhausted(b, t) ==
    /\ b # NoBudget
    /\ \/ is_cost_exceeded(b)
       \/ (remaining_seconds(b, t) # None /\ remaining_seconds(b, t) <= 0)

\* asyncio.timeout(timeout_secs): the instant the provider call is cut off.
timeout_at(b, t) ==
    IF b = NoBudget \/ remaining_seconds(b, t) = None THEN None
    ELSE t + remaining_seconds(b, t)

raise(cr, exc, args) ==
    [cr EXCEPT !.pc = "raised", !.exc = exc, !.exc_args = args, !.deadline = None]

\* One pass through the top of the retry loop with effective budget b: the
\* budget check, the prompt, and the start of the provider call.
begin_attempt(cr, b) ==
    IF budget_exhausted(b, now)
    THEN raise(cr, "BudgetExceeded", NoArgs)
    ELSE [cr EXCEPT !.pc = "calling",
                    !.last_prompt = compile_prompt(cr.step, cr.inputs, cr.retry_reasons),
                    !.deadline = timeout_at(b, now),
                    !.calls_made = @ + 1]

\* The raise after the loop.
retries_exhausted_mut(cr) ==
    IF \E i \in DOMAIN cr.retry_history : cr.retry_history[i][1][1] \in ParseErrors
    THEN raise(cr, "ParseFailure",
               [violations |-> cr.retry_reasons, retry_history |-> << >>])
    ELSE raise(cr, "PostconditionFailed",
               [violations |-> cr.retry_reasons, retry_history |-> cr.retry_history])

retries_exhausted(cr) ==
    IF cr.last_failure_was_parse /\ cr.retry_reasons # << >>
    THEN raise(cr, "ParseFailure",
               [violations |-> cr.retry_reasons, retry_history |-> << >>])
    ELSE raise(cr, "PostconditionFailed",
               [violations |-> cr.retry_reasons, retry_history |-> cr.retry_history])

\* What a failed attempt leaves in the frame (steps f, g, i and the end of
\* the loop body).
accumulate_mut(all_retry_reasons, reasons) == Append(all_retry_reasons, reasons[1])

accumulate(all_retry_reasons, reasons) == all_retry_reasons \o reasons

failed_attempt_mut(cr, reasons, is_parse) ==
    [cr EXCEPT !.retry_reasons = reasons,
               !.all_retry_reasons = accumulate(@, reasons),
               !.retry_history = IF is_parse THEN @ ELSE Append(@, reasons),
               !.last_failure_was_parse = is_parse,
               !.attempt = @ + 1]

failed_attempt(cr, reasons, is_parse) ==
    [cr EXCEPT !.retry_reasons = reasons,
               !.all_retry_reasons = accumulate(@, reasons),
               !.retry_history = Append(@, reasons),
               !.last_failure_was_parse = is_parse,
               !.attempt = @ + 1]

\* The attempts count of the success record (`attempt` is the loop index).
attempts_of_mut(attempt) == attempt

attempts_of(attempt) == attempt + 1

\* _write_trace / trace.record
TraceRecord(c, cr, attempts, output, cost, reasons, hit, prompt) ==
    [ call |-> c, function |-> cr.step, inputs |-> cr.inputs,
      compiled_prompt |-> prompt, attempts |-> attempts, output |-> output,
      cost_usd |-> cost, cache_hit |-> hit, retry_reasons |-> reasons,
      flow_id |-> cr.ctx ]

write_trace_mut(recs, r) == Append(Append(recs, r), r)

write_trace(recs, r) == Append(recs, r)

\* _export_trace_if_configured with a tracer configured: the hook is called
\* once; what it raises is swallowed, so the frame goes on the same way
\* whether or not it raises.
export_trace_if_configured(cr) == [cr EXCEPT !.spans = @ + 1]

\* ------------------------------------------------------------------ actions
\* The monotonic clock advances.  The program reads the clock only through
\* remaining_seconds and asyncio.timeout, so a tick is taken only while an
\* envelope in use, or a pending timeout, still has time left.
TimeLeft ==
    \/ \E f \in FlowIds :
           /\ flows[f].state = "active"
           /\ flows[f].budget # NoBudget
           /\ remaining_seconds(flows[f].budget, now) > 0
    \/ \E c \in Calls :
           /\ call[c].pc = "calling"
           /\ call[c].deadline # None
           /\ now < call[c].deadline

Tick ==
    /\ TimeLeft
    /\ now' = now + 1
    /\ UNCHANGED <<threshold, flows, process_session_cache, global_cache, records, call, flow_ctx, branch, prim, ext_vars>>

\* The program changes the state a postcondition reads (a contract gains a
\* stricter postcondition, or loses it).
SetThreshold ==
    /\ threshold' = 3 - threshold
    /\ UNCHANGED <<now, flows, process_session_cache, global_cache, records, call, flow_ctx, branch, prim, ext_vars>>

\* _flow_ctx.reset(token) in the context of task t.
reset_mut(ctx, t, token) == [ctx EXCEPT ![t] = NoFlow]

reset(ctx, t, token) == [ctx EXCEPT ![t] = token]

\* @flow wrapper / FlowScope entry in task t: a fresh context with a clone of
\* the budget becomes the value of _flow_ctx in the task's context.
FlowEnter(t, f, b) ==
    /\ flows[f].state = "unused"
    /\ f > 1 => flows[f - 1].state # "unused"
    /\ flows' = [flows EXCEPT ![f] =
                    [ state |-> "active",
                      budget |-> IF b = NoBudget THEN NoBudget ELSE clone(b, now),
                      session_cache |-> EmptyDict,
                      task |-> t, token |-> flow_ctx[t] ]]
    /\ flow_ctx' = [flow_ctx EXCEPT ![t] = f]
    /\ UNCHANGED <<now, threshold, process_session_cache, global_cache, records, call, branch, prim, ext_vars>>

\* @flow wrapper / FlowScope exit in task t (the `finally` clause, reached by
\* a return and by an exception alike), once the steps awaited inside the
\* flow are done: the context variable is reset and the context is dropped.
\* A task leaves the flows it entered innermost first.
FlowExit(t, f) ==
    /\ flows[f].state = "active"
    /\ flows[f].task = t
    /\ flow_ctx[t] = f
    /\ \A c \in Calls : call[c].pc = "calling" => call[c].ctx # f
    /\ flows' = [flows EXCEPT ![f] = [UnusedFlow EXCEPT !.state = "exited"]]
    /\ flow_ctx' = reset(flow_ctx, t, flows[f].token)
    /\ UNCHANGED <<now, threshold, process_session_cache, global_cache, records, call, branch, prim, ext_vars>>

\* A task u is created by task t inside a flow (asyncio.create_task,
\* gather, TaskGroup): it runs in a copy of the creating task's context.
TaskSpawn(t, u) ==
    /\ u # t
    /\ flow_ctx[t] # NoFlow
    /\ flow_ctx[u] = NoFlow
    /\ \A f \in FlowIds : flows[f].task # u
    /\ flow_ctx' = [flow_ctx EXCEPT ![u] = flow_ctx[t]]
    /\ UNCHANGED <<now, threshold, flows, process_session_cache, global_cache, records, call, branch, prim, ext_vars>>

\* The @infer wrapper calls execute_infer(spec, inputs, ctx.budget, ctx.flow_id)
\* in the context of flow f; the invocation runs to its first await.
Start(c, s, inputs, f) ==
    /\ call[c].pc = "idle"
    /\ c > 1 => call[c - 1].pc # "idle"
    /\ f # NoFlow => flows[f].state = "active"
    /\ LET spec == InferSpec(s)
           flow_budget == IF f = NoFlow THEN NoBudget ELSE flows[f].budget
           cr0 == [IdleCall EXCEPT !.step = s, !.inputs = inputs, !.ctx = f]
           kind == budget_kind(spec.budget, flow_budget)
           cr1 == [cr0 EXCEPT !.kind = kind,
                              !.own = IF kind = "own" THEN clone(spec.budget, now)
                                      ELSE NoBudget]
           budget == IF kind = "own" THEN cr1.own ELSE flow_budget
           cache == cache_of(s, f)
           key == key_of(s, inputs)
       IN  IF given_fails(spec.given, inputs)
           THEN /\ call' = [call EXCEPT ![c] = raise(cr0, "PreconditionFailed", NoArgs)]
                /\ UNCHANGED records
           ELSE IF key \in DOMAIN cache
           THEN LET cached == cache[key]
                    viol == run_ensure(spec.ensure, cached, threshold)
                IN  IF viol # << >>
                    THEN /\ call' = [call EXCEPT ![c] =
                                raise(cr1, "PostconditionFailed",
                                      [violations |-> viol, retry_history |-> <<viol>>])]
                         /\ UNCHANGED records
                    ELSE /\ records' = write_trace(records,
                                TraceRecord(c, cr1, 0, cached, None, << >>, TRUE, NoPrompt))
                         /\ call' = [call EXCEPT ![c] =
                                [cr1 EXCEPT !.pc = "returned", !.result = cached,
                                            !.cache_hit = TRUE]]
           ELSE /\ call' = [call EXCEPT ![c] = begin_attempt(cr1, budget)]
                /\ UNCHANGED records
    /\ UNCHANGED <<now, threshold, flows, process_session_cache, global_cache, flow_ctx, branch, prim, ext_vars>>

\* The provider call of invocation c returns a response before the timeout
\* fires; `resp` is what parsing makes of it and `cost` what
\* litellm.completion_cost reports (0 also stands for None and for a cost
\* estimator that raises: nothing is recorded).  The invocation runs to its
\* next await, its return or its raise.
ProviderReturn(c, resp, cost) ==
    /\ call[c].pc = "calling"
    /\ call[c].deadline = None \/ now <= call[c].deadline
    /\ LET cr == call[c]
           spec == InferSpec(cr.step)
           b0 == budget_of(cr)
           b1 == IF cost # 0 /\ b0 # NoBudget THEN record_cost(b0, cost) ELSE b0
           cr1 == [cr EXCEPT !.total_cost = @ + cost,
                             !.own = IF cr.kind = "own" THEN b1 ELSE @]
           is_parse == resp[1] \in ParseErrors
           value == resp[2]
           viol == IF is_parse THEN <<resp>>
                   ELSE violations(spec.ensure, value, threshold)
           cr2 == failed_attempt(cr1, viol, is_parse)
           cost_usd == IF cr1.total_cost > 0 THEN cr1.total_cost ELSE None
       IN  /\ flows' = IF cr.kind = "flow"
                       THEN [flows EXCEPT ![cr.ctx].budget = b1,
                                          ![cr.ctx].session_cache =
                                              IF viol = << >> /\ spec.cache = "session"
                                              THEN Put(@, session_key(cr.step, cr.inputs), value)
                                              ELSE @]
                       ELSE IF viol = << >> /\ spec.cache = "session" /\ cr.ctx # NoFlow
                       THEN [flows EXCEPT ![cr.ctx].session_cache =
                                              Put(@, session_key(cr.step, cr.inputs), value)]
                       ELSE flows
           /\ IF viol = << >>
              THEN /\ records' = write_trace(records,
                          TraceRecord(c, cr1, attempts_of(cr1.attempt), value, cost_usd,
                                      cr1.all_retry_reasons, FALSE, cr1.last_prompt))
                   /\ process_session_cache' =
                          IF spec.cache = "session" /\ cr.ctx = NoFlow
                          THEN Put(process_session_cache, session_key(cr.step, cr.inputs), value)
                          ELSE process_session_cache
                   /\ global_cache' =
                          IF spec.cache = "global"
                          THEN Put(global_cache, global_key(cr.step, cr.inputs), value)
                          ELSE global_cache
                   /\ call' = [call EXCEPT ![c] =
                          export_trace_if_configured(
                              [cr1 EXCEPT !.pc = "returned", !.result = value,
                                          !.deadline = None])]
              ELSE /\ call' = [call EXCEPT ![c] =
                          IF cr2.attempt > spec.retries
                          THEN retries_exhausted(cr2)
                          ELSE begin_attempt(cr2, b1)]
                   /\ UNCHANGED <<records, process_session_cache, global_cache>>
    /\ UNCHANGED <<now, threshold, flow_ctx, branch, prim, ext_vars>>

\* asyncio.timeout fires during the provider call: BudgetExceeded.
ProviderTimeout(c) ==
    /\ call[c].pc = "calling"
    /\ call[c].deadline # None
    /\ now >= call[c].deadline
    /\ call' = [call EXCEPT ![c] = raise(call[c], "BudgetExceeded", NoArgs)]
    /\ UNCHANGED <<now, threshold, flows, process_session_cache, global_cache, records, flow_ctx, branch, prim, ext_vars>>

\* litellm.acompletion raises something other than asyncio.TimeoutError: no
\* handler of execute_infer catches it.
ProviderError(c) ==
    /\ call[c].pc = "calling"
    /\ call[c].deadline = None \/ now <= call[c].deadline
    /\ call' = [call EXCEPT ![c] = raise(call[c], "ProviderError", NoArgs)]
    /\ UNCHANGED <<now, threshold, flows, process_session_cache, global_cache, records, flow_ctx, branch, prim, ext_vars>>

\* One invocation, every provider behaviour, inside or outside one flow, with
\* the clock running.
Next ==
    \/ Tick
    \/ \E b \in FlowBudgets : FlowEnter(1, 1, b)
    \/ FlowExit(1, 1)
    \/ \E s \in StepNames, i \in Inputs, f \in {NoFlow, 1} : Start(1, s, i, f)
    \/ \E resp \in Responses, cost \in 0..MaxCost : ProviderReturn(1, resp, cost)
    \/ ProviderTimeout(1)
    \/ ProviderError(1)

Spec == Init /\ [][Next]_vars

\* Two invocations, possibly overlapping, inside and outside flows (each
\* run by a task of its own) that
\* declare no budget, with a provider that answers at once with well-formed
\* values at no cost, while the postcondition threshold moves.
NextCache ==
    \/ SetThreshold
    \/ \E f \in FlowIds : FlowEnter(f, f, NoBudget)
    \/ \E f \in FlowIds : FlowExit(f, f)
    \/ \E c \in Calls, s \in StepNames, i \in Inputs, f \in FlowIds \cup {NoFlow} :
           Start(c, s, i, f)
    \/ \E c \in Calls, v \in Values \ {0} : ProviderReturn(c, <<"ok", v>>, 0)

SpecCache == Init /\ [][NextCache]_vars

\* execute_infer has returned or raised to its caller: the frame of invocation
\* c is gone and the program can make another call.  The trace log is what
\* bounds the run.
Forget(c) ==
    /\ call[c].pc \in {"returned", "raised"}
    /\ Len(records) < MaxTrace
    /\ call' = [call EXCEPT ![c] = IdleCall]
    /\ UNCHANGED <<now, threshold, flows, process_session_cache, global_cache, records, flow_ctx, branch, prim, ext_vars>>

\* A program that keeps calling one session-cached step with the same inputs,
\* inside a flow or outside any, two invocations at a time, while the
\* postcondition becomes stricter once.
NextStale ==
    \/ threshold = 1 /\ SetThreshold
    \/ FlowEnter(1, 1, NoBudget)
    \/ \E c \in Calls, f \in {NoFlow, 1} :
           Start(c, "classify", [kind |-> "list", items |-> 1], f)
    \/ \E c \in Calls, v \in Values \ {0} : ProviderReturn(c, <<"ok", v>>, 0)
    \/ \E c \in Calls : Forget(c)

SpecStale == Init /\ [][NextStale]_vars

\* Two invocations, possibly overlapping, inside one flow that declares a
\* budget, with a provider that reports costs and takes time.
NextBudget ==
    \/ Tick
    \/ \E b \in FlowBudgets \ {NoBudget} : FlowEnter(1, 1, b)
    \/ \E c \in Calls, s \in StepNames : Start(c, s, [kind |-> "list", items |-> 1], 1)
    \/ \E c \in Calls, resp \in {<<"json", 0>>, <<"ok", 2>>}, cost \in 0..MaxCost :
           ProviderReturn(c, resp, cost)
    \/ \E c \in Calls : ProviderTimeout(c)

SpecBudget == Init /\ [][NextBudget]_vars

\* Two tasks (numbered like the invocations) that enter flows inside flows
\* and create the other task inside them, each invoking a step of a
\* session-cached function in its context.
NextScope ==
    \/ Tick
    \/ \E t \in Calls, f \in FlowIds, b \in FlowBudgets : FlowEnter(t, f, b)
    \/ \E t \in Calls, f \in FlowIds : FlowExit(t, f)
    \/ \E t \in Calls, u \in Calls : TaskSpawn(t, u)
    \/ \E t \in Calls, c \in Calls :
           Start(c, "classify", [kind |-> "list", items |-> 1], flow_ctx[t])
    \/ \E c \in Calls, cost \in {0, 1} : ProviderReturn(c, <<"ok", 2>>, cost)

SpecScope == Init /\ [][NextScope]_vars

\* ------------------------------------------------------------------ primitives
\* The branches among S that have not finished.
running(b, S) == {i \in S : b[i].state = "running"}

\* t.result() of tasks 1..n: the tuple / gather result, in input order.
task_results_mut(b, n, completed) == [k \in 1..n |-> b[completed[k]]]

task_results(b, n, completed) == [i \in 1..n |-> b[i]]

\* isinstance(o, Exception) on an element of a gather result.
is_exception(o) == o.state = "failed"

successes_of(outs) == SelectSeq(outs, LAMBDA o : ~is_exception(o))

failures_of(outs) == SelectSeq(outs, LAMBDA o : is_exception(o))

values_of(outs) == [i \in DOMAIN outs |-> outs[i].value]

\* Counter(str(v) for v in field_values)[s]
count_of(succ, s) ==
    Cardinality({i \in DOMAIN succ : str(succ[i].value.label) = s})

\* counts.most_common(1)[0]: the most frequent rendering, the first inserted
\* one among equally frequent ones, with its count.
most_common(succ) ==
    LET cnt(i) == count_of(succ, str(succ[i].value.label))
        m == CHOOSE i \in DOMAIN succ :
                 /\ \A j \in DOMAIN succ : cnt(j) <= cnt(i)
                 /\ \A j \in 1..(i - 1) : cnt(j) < cnt(i)
    IN  <<str(succ[m].value.label), cnt(m)>>

agreers_of(succ, modal_str) ==
    SelectSeq(succ, LAMBDA o : str(o.value.label) = modal_str)

\* The agreeing result returned: max(agreers, key=confidence) (the first of
\* the maximal ones) when the first agreer has a confidence, else the first.
best_of_mut(agreers) == agreers[1]

best_of(agreers) ==
    IF agreers[1].value.confidence # None
    THEN LET m == CHOOSE i \in DOMAIN agreers :
                      /\ \A j \in DOMAIN agreers :
                             agreers[j].value.confidence <= agreers[i].value.confidence
                      /\ \A j \in 1..(i - 1) :
                             agreers[j].value.confidence < agreers[i].value.confidence
         IN  agreers[m]
    ELSE agreers[1]

\* What _execute_quorum makes of the gathered outputs: the value returned or
\* the exception raised.
quorum_decide(all_outputs, n, threshold_n) ==
    LET succ == successes_of(all_outputs)
    IN  IF succ = << >>
        THEN [ok |-> FALSE, value |-> NoValue, exc |-> failures_of(all_outputs)[1].exc]
        ELSE LET mc == most_common(succ)
             IN  IF mc[2] < threshold_n
                 THEN [ok |-> FALSE, value |-> NoValue,
                       exc |-> ConsensusFailure(n, threshold_n, all_outputs)]
                 ELSE [ok |-> TRUE, value |-> best_of(agreers_of(succ, mc[1])).value,
                       exc |-> NoExc]

\* What parallel(require=N), N > 0, makes of the gathered results.
require_n_decide(all_results, require) ==
    LET succ == successes_of(all_results)
        fail == failures_of(all_results)
    IN  IF Len(succ) < require
        THEN [ok |-> FALSE, value |-> << >>,
              exc |-> IF fail # << >> THEN fail[1].exc ELSE RuntimeError]
        ELSE [ok |-> TRUE, value |-> values_of(SubSeq(succ, 1, require)), exc |-> NoExc]

\* The tasks are created and the primitive starts waiting.
start_prim(mode, n, require, shape) ==
    /\ prim.pc = "idle"
    /\ branch' = [i \in Branches |->
                     IF i <= n THEN [UnusedBranch EXCEPT !.state = "running"]
                     ELSE UnusedBranch]
    /\ prim' = [IdlePrim EXCEPT !.mode = mode, !.pc = "waiting", !.n = n,
                                !.require = require, !.shape = shape,
                                !.pending = 1..n]
    /\ UNCHANGED <<exec_vars, ext_vars>>

\* parallel(*coros, require=...) without validator; `require` is the N of
\* require=N and 0 for "all" and "any".
ParallelStart(mode, n, require) ==
    /\ mode \in {"all", "any", "n"}
    /\ mode = "n" <=> require > 0
    /\ start_prim(mode, n, require, "tag")

\* race(*coros)
RaceStart(n) ==
    /\ n >= 1
    /\ start_prim("race", n, 0, "tag")

\* The wrapper of a step declared with quorum=n, threshold=threshold_n.
QuorumStart(n, threshold_n, shape) ==
    /\ shape \in Shapes
    /\ start_prim("quorum", n, threshold_n, shape)

\* Branch i finishes with value v.
BranchReturn(i, v) ==
    /\ branch[i].state = "running"
    /\ v \in Outputs(prim.shape)
    /\ branch' = [branch EXCEPT ![i] = [@ EXCEPT !.state = "done", !.value = v]]
    /\ prim' = [prim EXCEPT !.completed = Append(@, i)]
    /\ UNCHANGED <<exec_vars, ext_vars>>

\* Branch i finishes by raising.
BranchRaise(i) ==
    /\ branch[i].state = "running"
    /\ branch' = [branch EXCEPT ![i] = [@ EXCEPT !.state = "failed", !.exc = BranchError(i)]]
    /\ prim' = [prim EXCEPT !.completed = Append(@, i)]
    /\ UNCHANGED <<exec_vars, ext_vars>>

\* asyncio.TaskGroup sees the first failed task: it cancels every task that
\* is still running.
TaskGroupAbort ==
    /\ prim.mode = "all"
    /\ prim.pc = "waiting"
    /\ ~prim.aborting
    /\ \E i \in 1..prim.n : branch[i].state = "failed"
    /\ branch' = [i \in Branches |->
                     IF branch[i].state = "running"
                     THEN [branch[i] EXCEPT !.state = "cancelled"]
                     ELSE branch[i]]
    /\ prim' = [prim EXCEPT !.aborting = TRUE, !.pending = {}]
    /\ UNCHANGED <<exec_vars, ext_vars>>

\* Every task of the TaskGroup has finished: the `async with` block ends, by
\* raising the group of the tasks' errors or by falling through to the
\* result tuple.
TaskGroupExit ==
    /\ prim.mode = "all"
    /\ prim.pc = "waiting"
    /\ running(branch, 1..prim.n) = {}
    /\ LET failed == SelectSeq(prim.completed, LAMBDA i : branch[i].state = "failed")
           errors == [k \in DOMAIN failed |-> branch[failed[k]].exc]
       IN  prim' = IF errors # << >>
                   THEN [prim EXCEPT !.pc = "raised", !.exc = ExceptionGroup(errors),
                                     !.pending = {}]
                   ELSE [prim EXCEPT !.pc = "returned", !.pending = {},
                                     !.result = values_of(task_results(branch, prim.n,
                                                                       prim.completed))]
    /\ UNCHANGED <<branch, exec_vars, ext_vars>>

\* parallel(require="any") / race: asyncio.wait(FIRST_COMPLETED) returns with
\* the set of pending tasks that have finished by now.  The loop over that
\* set (in the set's iteration order) takes the first successful task as the
\* winner; with a winner the first pending task is cancelled and awaited.
AnyWake ==
    /\ prim.mode \in {"any", "race"}
    /\ prim.pc = "waiting"
    /\ LET done == prim.pending \ running(branch, prim.pending)
           pending == running(branch, prim.pending)
           succ == {i \in done : branch[i].state = "done"}
       IN  /\ done # {}
           /\ IF succ # {}
              THEN \E w \in succ :
                     IF pending = {}
                     THEN /\ prim' = [prim EXCEPT !.pc = "returned", !.winner = w,
                                                  !.pending = {},
                                                  !.result = branch[w].value]
                          /\ UNCHANGED branch
                     ELSE \E p \in pending :
                            /\ branch' = [branch EXCEPT ![p].state = "cancelled"]
                            /\ prim' = [prim EXCEPT !.pc = "cancelling", !.winner = w,
                                                    !.pending = pending \ {p}]
              ELSE \E l \in done :
                     /\ prim' = IF pending = {}
                                THEN [prim EXCEPT !.pc = "raised", !.pending = {},
                                                  !.last_exc = branch[l].exc,
                                                  !.exc = branch[l].exc]
                                ELSE [prim EXCEPT !.pending = pending,
                                                  !.last_exc = branch[l].exc]
                     /\ UNCHANGED branch
    /\ UNCHANGED <<exec_vars, ext_vars>>

\* The cancelled task awaited by the loop over `pending` has finished: the
\* loop goes on to the next task that is still running (cancel() and await
\* of a finished task do not suspend), or ends and the winner's result is
\* returned.
CancelNext ==
    /\ prim.pc = "cancelling"
    /\ LET pending == running(branch, prim.pending)
       IN  IF pending = {}
           THEN /\ prim' = [prim EXCEPT !.pc = "returned", !.pending = {},
                                        !.result = branch[prim.winner].value]
                /\ UNCHANGED branch
           ELSE \E p \in pending :
                  /\ branch' = [branch EXCEPT ![p].state = "cancelled"]
                  /\ prim' = [prim EXCEPT !.pending = pending \ {p}]
    /\ UNCHANGED <<exec_vars, ext_vars>>

\* parallel(require=N): asyncio.gather(return_exceptions=True) has every
\* result.
GatherN ==
    /\ prim.mode = "n"
    /\ prim.pc = "waiting"
    /\ running(branch, 1..prim.n) = {}
    /\ LET d == require_n_decide(task_results(branch, prim.n, prim.completed), prim.require)
       IN  prim' = IF d.ok
                   THEN [prim EXCEPT !.pc = "returned", !.pending = {}, !.result = d.value]
                   ELSE [prim EXCEPT !.pc = "raised", !.pending = {}, !.exc = d.exc]
    /\ UNCHANGED <<branch, exec_vars, ext_vars>>

\* _execute_quorum: asyncio.gather(return_exceptions=True) has every output.
QuorumGather ==
    /\ prim.mode = "quorum"
    /\ prim.pc = "waiting"
    /\ running(branch, 1..prim.n) = {}
    /\ LET d == quorum_decide(task_results(branch, prim.n, prim.completed),
                              prim.n, prim.require)
       IN  prim' = IF d.ok
                   THEN [prim EXCEPT !.pc = "returned", !.pending = {}, !.result = d.value]
                   ELSE [prim EXCEPT !.pc = "raised", !.pending = {}, !.exc = d.exc]
    /\ UNCHANGED <<branch, exec_vars, ext_vars>>

\* gather(return_exceptions=True)[i]: the value of a task that returned, the
\* exception object of one that raised or was cancelled.
raw_of(o) == IF o.state = "done" THEN o.value ELSE o.exc

\* What parallel(require=0) makes of the gathered results.
collect_decide(all_results, validate) ==
    LET results == [k \in DOMAIN all_results |->
                       IF ~is_exception(all_results[k])
                       THEN Success(raw_of(all_results[k]))
                       ELSE Failure(raw_of(all_results[k]))]
    IN  IF validate # "none" /\ ~validate_fn(validate, results)
        THEN [ok |-> FALSE, value |-> << >>, exc |-> ParallelValidationFailed]
        ELSE [ok |-> TRUE, value |-> results, exc |-> NoExc]

\* parallel(*coros, require=0, validate=...) on n coroutines, n >= 0.
CollectStart(n, validate) ==
    /\ prim.pc = "idle"
    /\ validate \in Validators
    /\ branch' = [i \in Branches |->
                     IF i <= n THEN [UnusedBranch EXCEPT !.state = "running"]
                     ELSE UnusedBranch]
    /\ prim' = [IdlePrim EXCEPT !.mode = "collect", !.pc = "waiting", !.n = n,
                                !.pending = 1..n, !.validate = validate]
    /\ UNCHANGED <<exec_vars, ext_vars>>

\* Branch i ends cancelled: its coroutine let a CancelledError escape.
BranchCancelled(i) ==
    /\ branch[i].state = "running"
    /\ branch' = [branch EXCEPT ![i] = [@ EXCEPT !.state = "cancelled",
                                                 !.exc = CancelledError]]
    /\ prim' = [prim EXCEPT !.completed = Append(@, i)]
    /\ UNCHANGED <<exec_vars, ext_vars>>

\* parallel(require=0): asyncio.gather(return_exceptions=True) has every
\* result.
GatherCollect ==
    /\ prim.mode = "collect"
    /\ prim.pc = "waiting"
    /\ running(branch, 1..prim.n) = {}
    /\ LET d == collect_decide(task_results(branch, prim.n, prim.completed),
                               prim.validate)
       IN  prim' = IF d.ok
                   THEN [prim EXCEPT !.pc = "returned", !.pending = {}, !.result = d.value]
                   ELSE [prim EXCEPT !.pc = "raised", !.pending = {}, !.exc = d.exc]
    /\ UNCHANGED <<branch, exec_vars, ext_vars>>

\* cancel() is called on the task that awaits the primitive while it is
\* suspended in it.  A TaskGroup cancels its tasks and, unless one of them
\* has failed, re-raises the CancelledError; gather cancels its children and
\* re-raises; asyncio.wait re-raises and leaves the tasks alone; the
\* `except (CancelledError, Exception): pass` around `await p` swallows it.
CallerCancel ==
    /\ prim.pc \in {"waiting", "cancelling"}
    /\ ~prim.cancel_requested
    /\ IF prim.mode \in {"any", "race"}
       THEN /\ prim' = IF prim.pc = "waiting"
                        THEN [prim EXCEPT !.cancel_requested = TRUE,
                                          !.pc = "cancelled", !.exc = CancelledError]
                        ELSE [prim EXCEPT !.cancel_requested = TRUE]
            /\ UNCHANGED branch
       ELSE /\ branch' = [i \in Branches |->
                             IF branch[i].state = "running"
                             THEN [branch[i] EXCEPT !.state = "cancelled",
                                                    !.exc = CancelledError]
                             ELSE branch[i]]
            /\ prim' = IF prim.mode = "all"
                           /\ \E i \in 1..prim.n : branch[i].state = "failed"
                        THEN [prim EXCEPT !.cancel_requested = TRUE,
                                          !.aborting = TRUE, !.pending = {}]
                        ELSE [prim EXCEPT !.cancel_requested = TRUE, !.pending = {},
                                          !.pc = "cancelled", !.exc = CancelledError]
    /\ UNCHANGED <<exec_vars, ext_vars>>

\* One call of parallel or race on up to MaxBranches coroutines that return
\* or raise in any order.
NextPar ==
    \/ \E mode \in {"all", "any", "n"}, n \in Branches, require \in 0..MaxBranches :
           ParallelStart(mode, n, require)
    \/ \E n \in Branches : RaceStart(n)
    \/ \E i \in Branches, v \in Outputs("tag") : BranchReturn(i, v)
    \/ \E i \in Branches : BranchRaise(i)
    \/ TaskGroupAbort
    \/ TaskGroupExit
    \/ AnyWake
    \/ CancelNext
    \/ GatherN

SpecPar == Init /\ [][NextPar]_vars

\* One call of parallel(require=0) whose coroutines return, raise or end
\* cancelled in any order.
NextCollect ==
    \/ \E n \in 0..MaxBranches, validate \in Validators : CollectStart(n, validate)
    \/ \E i \in Branches, v \in Outputs("tag") : BranchReturn(i, v)
    \/ \E i \in Branches : BranchRaise(i)
    \/ \E i \in Branches : BranchCancelled(i)
    \/ GatherCollect

SpecCollect == Init /\ [][NextCollect]_vars

\* One call of parallel or race whose awaiting task may be cancelled while
\* the call is in progress.
NextCancel ==
    \/ \E mode \in {"all", "any", "n"}, n \in Branches, require \in 0..MaxBranches :
           ParallelStart(mode, n, require)
    \/ \E n \in Branches : RaceStart(n)
    \/ \E n \in 0..MaxBranches : CollectStart(n, "none")
    \/ \E i \in Branches, v \in Outputs("tag") : BranchReturn(i, v)
    \/ \E i \in Branches : BranchRaise(i)
    \/ TaskGroupAbort
    \/ TaskGroupExit
    \/ AnyWake
    \/ CancelNext
    \/ GatherN
    \/ GatherCollect
    \/ CallerCancel

SpecCancel == Init /\ [][NextCancel]_vars

\* One call of a quorum step whose executions return or raise in any order.
NextQuorum ==
    \/ \E n \in Branches, threshold_n \in Branches, shape \in Shapes :
           QuorumStart(n, threshold_n, shape)
    \/ \E i \in Branches, v \in Outputs("vote") \cup Outputs("tag") : BranchReturn(i, v)
    \/ \E i \in Branches : BranchRaise(i)
    \/ QuorumGather

SpecQuorum == Init /\ [][NextQuorum]_vars

\* ------------------------------------------------------------------ debate
\* [arguments[j] for j in range(len(arguments)) if j != i]
previous_arguments_mut(arguments, i) == arguments

previous_arguments(arguments, i) ==
    [k \in 1..(Len(arguments) - 1) |-> IF k < i THEN arguments[k] ELSE arguments[k + 1]]

\* The agree_on of the first agent that declares one, else "".
agree_on_field(agree_on) ==
    LET declared == SelectSeq(agree_on, LAMBDA f : f # "")
    IN  IF declared # << >> THEN declared[1] ELSE ""

\* len(comparison_values) == 1
converged_mut(last_round, field) ==
    Cardinality({render(last_round[k]) : k \in DOMAIN last_round}) = 1

converged(last_round, field) ==
    IF field # ""
    THEN Cardinality({str(last_round[k].label) : k \in DOMAIN last_round}) = 1
    ELSE Cardinality({render(last_round[k]) : k \in DOMAIN last_round}) = 1

\* debate(agents, topic, rounds, synthesize=...): round 1 is gathered.
DebateStart(n, topic, rounds, agree_on) ==
    /\ dbt.pc = "idle"
    /\ n >= 1
    /\ dbt' = [IdleDebate EXCEPT
                  !.pc = "round", !.n = n, !.topic = topic, !.rounds = rounds,
                  !.agree_on = agree_on, !.round = 1,
                  !.task = [i \in Agents |->
                               IF i <= n
                               THEN [IdleAgent EXCEPT !.state = "running",
                                                      !.kwargs.keys = {"topic"},
                                                      !.kwargs.topic = topic]
                               ELSE IdleAgent]]
    /\ UNCHANGED <<exec_vars, prim_vars, rfn, review, ctl>>

\* Agent i returns its argument for the current round.
AgentReturn(i, v) ==
    /\ dbt.task[i].state = "running"
    /\ dbt' = [dbt EXCEPT !.task[i].state = "done", !.task[i].value = v]
    /\ UNCHANGED <<exec_vars, prim_vars, rfn, review, ctl>>

\* Agent i raises: gather re-raises in debate at once and leaves the other
\* agents running.
AgentRaise(i) ==
    /\ dbt.task[i].state = "running"
    /\ dbt' = [dbt EXCEPT !.task[i].state = "failed",
                          !.pc = IF @ = "round" THEN "raised" ELSE @,
                          !.exc = IF dbt.pc = "round" THEN BranchError(i) ELSE @]
    /\ UNCHANGED <<exec_vars, prim_vars, rfn, review, ctl>>

\* gather returns the round's arguments: they are appended to the history,
\* and either the next round is gathered or synthesize is called with the
\* convergence of the last round.
RoundDone ==
    /\ dbt.pc = "round"
    /\ \A i \in 1..dbt.n : dbt.task[i].state = "done"
    /\ LET arguments == [i \in 1..dbt.n |-> dbt.task[i].value]
           history == Append(dbt.history, arguments)
       IN  dbt' = IF dbt.round < dbt.rounds
                  THEN [dbt EXCEPT
                           !.round = @ + 1, !.history = history,
                           !.task = [i \in Agents |->
                               IF i <= dbt.n
                               THEN [IdleAgent EXCEPT
                                        !.state = "running",
                                        !.kwargs = [keys |-> {"topic", "previous_arguments"},
                                                    topic |-> dbt.topic,
                                                    previous_arguments |->
                                                        previous_arguments(arguments, i)]]
                               ELSE IdleAgent]]
                  ELSE [dbt EXCEPT
                           !.pc = "synthesize", !.history = history,
                           !.synthesize_calls =
                               Append(@, [topic |-> dbt.topic, arguments |-> history,
                                          converged |->
                                              converged(history[Len(history)],
                                                        agree_on_field(dbt.agree_on)),
                                          returned |-> None])]
    /\ UNCHANGED <<exec_vars, prim_vars, rfn, review, ctl>>

\* synthesize returns v, which debate returns.
SynthesizeReturn(v) ==
    /\ dbt.pc = "synthesize"
    /\ dbt' = [dbt EXCEPT !.pc = "returned", !.result = v,
                          !.synthesize_calls[1].returned = v]
    /\ UNCHANGED <<exec_vars, prim_vars, rfn, review, ctl>>

\* One call of debate on up to MaxAgents agents and up to MaxRounds rounds;
\* the topic is handed on unchanged, so one value is tried.
NextDebate ==
    \/ \E n \in Agents, topic \in {"q"}, rounds \in 1..MaxRounds :
           \E agree_on \in [1..n -> {"", "label"}] :
               DebateStart(n, topic, rounds, agree_on)
    \/ \E i \in Agents, v \in DebateOutputs : AgentReturn(i, v)
    \/ \E i \in Agents : AgentRaise(i)
    \/ RoundDone
    \/ \E v \in Values : SynthesizeReturn(v)

SpecDebate == Init /\ [][NextDebate]_vars

\* ------------------------------------------------------------------ refine
\* The `until` and `feedback` callables of the wrapped step: an output is
\* accepted when it is 2, and the feedback names the output it is about.
until(result) == result = 2

feedback(result) == <<"issues of", result>>

\* `for iteration in range(max_iterations)`: whether another iteration
\* follows the one with index `iteration` (from 0).
next_iteration_mut(iteration, max_iterations) == iteration + 1 <= max_iterations

next_iteration(iteration, max_iterations) == iteration + 1 < max_iterations

\* The wrapper is called: the first iteration hands the base spec to
\* execute_infer, or the loop body never runs.
RefineStart(max_iterations, cache, cached) ==
    /\ rfn.pc = "idle"
    /\ cache = "none" => cached = None
    /\ rfn' = IF max_iterations = 0
              THEN [IdleRefine EXCEPT
                       !.pc = "raised", !.cache = cache, !.cached = cached,
                       !.exc = ConvergenceFailure("step", max_iterations, << >>)]
              ELSE [IdleRefine EXCEPT
                       !.pc = "executing", !.max_iterations = max_iterations,
                       !.cache = cache, !.cached = cached,
                       !.calls = << << >> >>]
    /\ UNCHANGED <<exec_vars, prim_vars, dbt, review, ctl>>

\* The rest of an iteration of frame f whose execute_infer call returned
\* `result`: it is returned when `until` accepts it; else its feedback
\* replaces the extra context and the next iteration starts, or the
\* iterations are used up.
refine_step(f, result, cache_hit) ==
    LET history == Append(f.history, result)
        extra_context == << <<"Previous output had the following issues:",
                              feedback(result)>> >>
        g == [f EXCEPT !.history = history, !.cache_hits = Append(@, cache_hit)]
    IN  IF until(result)
        THEN [g EXCEPT !.pc = "returned", !.result = result]
        ELSE IF next_iteration(Len(f.history), f.max_iterations)
        THEN [g EXCEPT !.feedback_calls = Append(@, result),
                       !.extra_context = extra_context,
                       !.calls = Append(@, extra_context)]
        ELSE [g EXCEPT !.pc = "raised",
                       !.feedback_calls = Append(@, result),
                       !.extra_context = extra_context,
                       !.exc = ConvergenceFailure("step", f.max_iterations, history)]

\* execute_infer finds no cache entry, calls the provider and returns
\* `result`, which it stores under the step's cache policy.
ExecuteInferReturn(result) ==
    /\ rfn.pc = "executing"
    /\ rfn.cache = "none" \/ rfn.cached = None
    /\ rfn' = refine_step([rfn EXCEPT !.cached = IF rfn.cache = "none" THEN @ ELSE result],
                          result, FALSE)
    /\ UNCHANGED <<exec_vars, prim_vars, dbt, review, ctl>>

\* execute_infer finds the cache entry of the call's inputs and returns it.
ExecuteInferCacheHit ==
    /\ rfn.pc = "executing"
    /\ rfn.cache # "none"
    /\ rfn.cached # None
    /\ rfn' = refine_step(rfn, rfn.cached, TRUE)
    /\ UNCHANGED <<exec_vars, prim_vars, dbt, review, ctl>>

\* execute_infer raises (retries or budget used up): the wrapper lets the
\* exception through.
ExecuteInferRaise(e) ==
    /\ rfn.pc = "executing"
    /\ rfn' = [rfn EXCEPT !.pc = "raised",
                          !.exc = [type |-> e, by |-> 0, args |-> << >>]]
    /\ UNCHANGED <<exec_vars, prim_vars, dbt, review, ctl>>

\* One call of a refine-wrapped step.
NextRefine ==
    \/ \E max_iterations \in 0..MaxIterations, cache \in {"none", "session", "global"},
          cached \in {None} \cup Values :
           RefineStart(max_iterations, cache, cached)
    \/ \E result \in Values : ExecuteInferReturn(result)
    \/ ExecuteInferCacheHit
    \/ \E e \in {"PostconditionFailed", "ParseFailure", "BudgetExceeded"} :
           ExecuteInferRaise(e)

SpecRefine == Init /\ [][NextRefine]_vars

\* ------------------------------------------------------------------ hitl
\* PendingReview.resolve(decision) on frame f: the outcome of the call and
\* the future after it.
resolve_mut(f, decision) ==
    IF f.future.state = "pending"
    THEN [outcome |-> "set", future |-> [state |-> "done", result |-> decision]]
    ELSE [outcome |-> "noop", future |-> f.future]

resolve(f, decision) ==
    IF ~(f.decision_type = "object" \/ decision.value.type = f.decision_type)
    THEN [outcome |-> "TypeError", future |-> f.future]
    ELSE IF f.future.state = "pending"
    THEN [outcome |-> "set", future |-> [state |-> "done", result |-> decision]]
    ELSE [outcome |-> "noop", future |-> f.future]

\* The `except asyncio.TimeoutError` branch of await_human on frame f.
timed_out_mut(f) ==
    [f EXCEPT !.pc = "returned",
              !.result = HumanDecision(f.on_timeout, "auto", "timeout", f.review_id)]

timed_out(f) ==
    IF f.on_timeout = Raise
    THEN [f EXCEPT !.pc = "raised", !.exc = HITLTimeoutError(f.review_id)]
    ELSE [f EXCEPT !.pc = "returned",
                   !.result = HumanDecision(f.on_timeout, "auto", "timeout", f.review_id)]

\* await_human(context, decision_type, timeout=..., on_timeout=...): the
\* review gets a fresh id and future, is handed to the sink, and the caller
\* is suspended on the future.
AwaitHuman(review_id, decision_type, timeout, on_timeout) ==
    /\ review.pc = "idle"
    /\ review' = [IdleReview EXCEPT
                     !.pc = "waiting", !.review_id = review_id,
                     !.decision_type = decision_type, !.timeout = timeout,
                     !.on_timeout = on_timeout, !.future.state = "pending"]
    /\ UNCHANGED <<exec_vars, prim_vars, dbt, rfn, ctl>>

\* The sink calls review.resolve with a decision of the given value.
Resolve(value) ==
    /\ review.pc # "idle"
    /\ Len(review.resolves) < MaxResolves
    /\ LET decision == HumanDecision(value, "reviewer", "", review.review_id)
           r == resolve(review, decision)
       IN  review' = [review EXCEPT
                         !.future = r.future,
                         !.resolves = Append(@, [decision |-> decision,
                                                 outcome |-> r.outcome])]
    /\ UNCHANGED <<exec_vars, prim_vars, dbt, rfn, ctl>>

\* The timer of asyncio.timeout runs while await_human is suspended: it
\* cancels the task, which cancels the future unless it is already done.
TimeoutFire ==
    /\ review.pc = "waiting"
    /\ review.timeout # None
    /\ ~review.must_cancel
    /\ review' = [review EXCEPT
                     !.must_cancel = TRUE,
                     !.future.state = IF @ = "pending" THEN "cancelled" ELSE @]
    /\ UNCHANGED <<exec_vars, prim_vars, dbt, rfn, ctl>>

\* The suspended await_human is resumed: with the CancelledError of the
\* timeout, turned into TimeoutError, or with the future's result.
Wake ==
    /\ review.pc = "waiting"
    /\ review.future.state # "pending"
    /\ review' = IF review.must_cancel
                 THEN timed_out(review)
                 ELSE [review EXCEPT !.pc = "returned", !.result = review.future.result]
    /\ UNCHANGED <<exec_vars, prim_vars, dbt, rfn, ctl>>

\* One call of await_human and the sink's calls of resolve on its review.
NextHitl ==
    \/ \E review_id \in {1, 2}, decision_type \in {"str", "int", "object"},
          timeout \in {None, 1}, on_timeout \in DecisionValues \cup {Raise} :
           AwaitHuman(review_id, decision_type, timeout, on_timeout)
    \/ \E value \in DecisionValues : Resolve(value)
    \/ TimeoutFire
    \/ Wake

SpecHitl == Init /\ [][NextHitl]_vars

\* ------------------------------------------------------------------ controller
\* dep_graph[step.id]: the explicit depends_on and the ids named by
\* `$.steps.<id>...` input references.
dep_graph_mut(flow, id) == flow.depends_on[id]

dep_graph(flow, id) == flow.depends_on[id] \cup flow.refs[id]

\* The `while ready` loop of Kahn's algorithm.
RECURSIVE kahn(_, _, _, _)
kahn(flow, in_degree, ready, ordered) ==
    IF ready = << >>
    THEN ordered
    ELSE LET sid == Head(ready)
             steps == SubSeq(StepOrder, 1, flow.n)
             deg == [id \in StepIds |->
                        IF sid \in dep_graph(flow, id) THEN in_degree[id] - 1
                        ELSE in_degree[id]]
             freed == SelectSeq(steps, LAMBDA id : sid \in dep_graph(flow, id)
                                                  /\ deg[id] = 0)
         IN  kahn(flow, deg, Tail(ready) \o freed, Append(ordered, sid))

\* _topological_sort: the order, or a cycle error when steps are left over.
topological_sort(flow) ==
    LET steps == SubSeq(StepOrder, 1, flow.n)
        in_degree == [id \in StepIds |-> Cardinality(dep_graph(flow, id))]
        ordered == kahn(flow, in_degree,
                        SelectSeq(steps, LAMBDA id : in_degree[id] = 0), << >>)
    IN  [ok |-> Len(ordered) = flow.n, ordered |-> ordered]

\* get_current_step_info: the descriptor of the current step, or (status
\* "raised": no response, the exception leaves the operation) the
\* MCPExecutionError raised for an input reference that does not resolve.
step_info(f) ==
    LET id == f.ordered_steps[f.current_idx + 1]
    IN  IF id \in f.flow.unresolvable
        THEN [NoResponse EXCEPT !.status = "raised",
                                !.error_type = "MCPExecutionError"]
        ELSE [NoResponse EXCEPT
                 !.status = "execute_step", !.step_id = id,
                 !.retries_remaining = f.flow.retries[id] - f.attempts[id]]

\* `attempt >= fn_def.retries`
exhausted_mut(attempt, retries) == attempt > retries

exhausted(attempt, retries) == attempt >= retries

\* process_step_result with the ensure expressions evaluated before the
\* schema is looked at and their violations reported together.
process_step_result_mut(f, id, result) ==
    LET attempt == f.attempts[id]
        schema_errors ==
            IF f.flow.output_schema[id] /\ "text" \notin result.fields
            THEN <<"output_schema violation: text is a required property">>
            ELSE << >>
        ensure_violations ==
            IF "text" \notin result.fields
            THEN <<"ensure raised: no attribute text">>
            ELSE IF result.text = "" THEN <<"ensure failed: result.text is empty">>
            ELSE << >>
        g == [f EXCEPT !.ensure_evaluated = TRUE]
        recorded == [g EXCEPT !.records = Append(@, [step_id |-> id,
                                                      attempts |-> attempt])]
    IN  IF schema_errors \o ensure_violations # << >>
        THEN IF exhausted(attempt, f.flow.retries[id])
             THEN [status |-> "retries_exhausted",
                   violations |-> schema_errors \o ensure_violations, state |-> recorded]
             ELSE [status |-> IF schema_errors # << >> THEN "schema_failed"
                              ELSE "ensure_failed",
                   violations |-> schema_errors \o ensure_violations, state |-> g]
        ELSE [status |-> "ok", violations |-> << >>,
              state |-> [recorded EXCEPT !.step_outputs[id] = result,
                                         !.current_idx = @ + 1]]

\* process_step_result for the current step `id` of state f, after the
\* attempt was counted: the status, the ensure_violations and the state after it.
\* ensure_evaluated records whether the call ran the ensure expressions.
process_step_result(f, id, result) ==
    LET attempt == f.attempts[id]
        schema_errors ==
            IF f.flow.output_schema[id] /\ "text" \notin result.fields
            THEN <<"output_schema violation: text is a required property">>
            ELSE << >>
        ensure_violations ==
            IF "text" \notin result.fields
            THEN <<"ensure raised: no attribute text">>
            ELSE IF result.text = "" THEN <<"ensure failed: result.text is empty">>
            ELSE << >>
        g == [f EXCEPT !.ensure_evaluated = TRUE]
        record == [step_id |-> id, attempts |-> attempt]
    IN  IF schema_errors # << >>
        THEN IF exhausted(attempt, f.flow.retries[id])
             THEN [status |-> "retries_exhausted", violations |-> schema_errors,
                   state |-> [f EXCEPT !.records = Append(@, record)]]
             ELSE [status |-> "schema_failed", violations |-> schema_errors,
                   state |-> f]
        ELSE IF ensure_violations # << >>
        THEN IF exhausted(attempt, f.flow.retries[id])
             THEN [status |-> "retries_exhausted", violations |-> ensure_violations,
                   state |-> [g EXCEPT !.records = Append(@, record)]]
             ELSE [status |-> "ensure_failed", violations |-> ensure_violations,
                   state |-> g]
        ELSE [status |-> "ok", violations |-> << >>,
              state |-> [g EXCEPT !.records = Append(@, record),
                                  !.step_outputs[id] = result,
                                  !.current_idx = @ + 1]]

\* stratum_plan on a validated spec: the flow state is created and the
\* first step is handed to the driver, or the cycle error is returned.  When
\* the descriptor of the first step raises, the flow is stored under an id
\* the caller never gets (status "stored").
Plan(flow) ==
    /\ ctl.status = "none"
    /\ LET t == topological_sort(flow)
           f == [IdleCtl EXCEPT !.status = "active", !.flow = flow,
                                !.ordered_steps = t.ordered]
       IN  ctl' = IF t.ok /\ step_info(f).status = "raised"
                  THEN [f EXCEPT !.status = "stored", !.response = step_info(f)]
                  ELSE IF t.ok
                  THEN [f EXCEPT !.response = step_info(f)]
                  ELSE [IdleCtl EXCEPT
                           !.status = "error", !.flow = flow,
                           !.response = [NoResponse EXCEPT
                                            !.status = "error",
                                            !.error_type = "execution_error"]]
    /\ UNCHANGED <<exec_vars, prim_vars, dbt, rfn, review>>

\* stratum_step_done(flow_id, step_id, result) on the stored flow.
StepDone(step_id, result) ==
    /\ ctl.status = "active"
    /\ \A id \in StepIds : ctl.attempts[id] < MaxAttempts
    /\ LET req == [ctl EXCEPT !.request = [step_id |-> step_id, result |-> result],
                             !.ensure_evaluated = FALSE]
           error == [NoResponse EXCEPT !.status = "error",
                                       !.error_type = "execution_error"]
       IN  IF ctl.current_idx >= Len(ctl.ordered_steps)
           THEN ctl' = [req EXCEPT !.response = error]
           ELSE IF ctl.ordered_steps[ctl.current_idx + 1] # step_id
           THEN ctl' = [req EXCEPT !.response = error]
           ELSE LET r == process_step_result(
                             [req EXCEPT !.attempts[step_id] = @ + 1], step_id, result)
                    g == r.state
                IN  ctl' =
                      IF r.status = "retries_exhausted"
                      THEN [g EXCEPT !.response =
                               [NoResponse EXCEPT
                                   !.status = "error", !.error_type = "retries_exhausted",
                                   !.step_id = step_id, !.violations = r.violations]]
                      ELSE IF r.status \in {"ensure_failed", "schema_failed"}
                      THEN [g EXCEPT !.response =
                               IF step_info(g).status = "raised"
                               THEN step_info(g)
                               ELSE [step_info(g) EXCEPT
                                        !.status = r.status,
                                        !.violations = r.violations]]
                      ELSE IF g.current_idx >= Len(g.ordered_steps)
                      THEN [g EXCEPT !.response = [NoResponse EXCEPT !.status = "complete"]]
                      ELSE [g EXCEPT !.response = step_info(g)]
    /\ UNCHANGED <<exec_vars, prim_vars, dbt, rfn, review>>

\* stratum_audit(flow_id) on the stored flow.
Audit ==
    /\ ctl.status = "active"
    /\ ctl' = [ctl EXCEPT
                  !.request = [step_id |-> "", result |-> NoResult],
                  !.response =
                      [NoResponse EXCEPT
                          !.status = IF ctl.current_idx >= Len(ctl.ordered_steps)
                                     THEN "complete" ELSE "in_progress",
                          !.steps_completed = Len(ctl.records)]]
    /\ UNCHANGED <<exec_vars, prim_vars, dbt, rfn, review>>

\* Flows of up to three steps, each with at most one explicit dependency
\* and at most one referenced id, driven with results that pass.
NextPlan ==
    \/ \E n \in 1..Len(StepOrder) :
         LET ids == {StepOrder[k] : k \in 1..n}
             few(S) == {T \in SUBSET S : Cardinality(T) <= 1}
         IN  \E depends_on \in [ids -> few(ids)],
                refs \in [ids -> few(ids \cup {"ghost"})] :
               Plan([n |-> n,
                     depends_on |-> [id \in StepIds |->
                                        IF id \in ids THEN depends_on[id] ELSE {}],
                     refs |-> [id \in StepIds |-> IF id \in ids THEN refs[id] ELSE {}],
                     retries |-> [id \in StepIds |-> 1],
                     output_schema |-> [id \in StepIds |-> FALSE],
                     unresolvable |-> {}])
    \/ \E step_id \in StepIds : StepDone(step_id, [fields |-> {"text"}, text |-> "x"])

SpecPlan == Init /\ [][NextPlan]_vars

\* A flow of two steps, the second reading the first, with every retries
\* ceiling and output schema, driven with every result for every step id.
NextController ==
    \/ \E retries \in [{"a", "b"} -> 1..MaxStepRetries],
          output_schema \in [{"a", "b"} -> BOOLEAN] :
           Plan([n |-> 2, depends_on |-> [id \in StepIds |-> {}],
                 refs |-> [id \in StepIds |-> IF id = "b" THEN {"a"} ELSE {}],
                 retries |-> [id \in StepIds |->
                                 IF id = "c" THEN 1 ELSE retries[id]],
                 output_schema |-> [id \in StepIds |->
                                       id # "c" /\ output_schema[id]],
                 unresolvable |-> {}])
    \/ \E step_id \in StepIds, result \in Results : StepDone(step_id, result)

SpecController == Init /\ [][NextController]_vars

\* The flow of two steps with input references that may not resolve,
\* driven with every result and audited at any time.
NextSurface ==
    \/ \E retries \in 1..MaxStepRetries, output_schema \in BOOLEAN,
          unresolvable \in SUBSET {"a", "b"} :
           Plan([n |-> 2, depends_on |-> [id \in StepIds |-> {}],
                 refs |-> [id \in StepIds |-> IF id = "b" THEN {"a"} ELSE {}],
                 retries |-> [id \in StepIds |-> IF id = "c" THEN 1 ELSE retries],
                 output_schema |-> [id \in StepIds |-> id # "c" /\ output_schema],
                 unresolvable |-> unresolvable])
    \/ \E step_id \in StepIds, result \in Results : StepDone(step_id, result)
    \/ Audit

SpecSurface == Init /\ [][NextSurface]_vars

\* ------------------------------------------------------------------ claims
\* The trace records written for invocation c.
records_of(c) == {i \in DOMAIN records : records[i].call = c}

RECURSIVE flatten(_)
flatten(history) ==
    IF history = << >> THEN << >> ELSE Head(history) \o flatten(Tail(history))

FinalFailures == {"PostconditionFailed", "ParseFailure", "BudgetExceeded"}

\* C1: an invocation that returns after k >= 1 provider calls has exactly one
\* trace record, and an invocation still in its retry loop (all its attempts
\* so far failed and were retried) has none.
C1_OneRecordPerSuccess ==
    \A c \in Calls :
        /\ (call[c].pc = "returned" /\ call[c].calls_made >= 1)
               => Cardinality(records_of(c)) = 1
        /\ call[c].pc = "calling" => records_of(c) = {}

\* An invocation that succeeded on its third attempt, with its one record.
C1_Witness ==
    \E c \in Calls :
        /\ call[c].pc = "returned"
        /\ call[c].calls_made = 3
        /\ Cardinality(records_of(c)) = 1

\* C2: when an invocation ends in PostconditionFailed, ParseFailure or
\* BudgetExceeded, exactly one trace record of it is in the trace log.
C2_OneRecordPerFailure ==
    \A c \in Calls :
        (call[c].pc = "raised" /\ call[c].exc \in FinalFailures)
            => Cardinality(records_of(c)) = 1

\* C3: the attempts field of an invocation's trace record is the number of
\* provider calls the invocation made (0 for a cache hit, k when the k-th
\* attempt succeeds).
C3_AttemptsIsProviderCalls ==
    \A i \in DOMAIN records :
        /\ records[i].attempts = call[records[i].call].calls_made
        /\ records[i].cache_hit <=> records[i].attempts = 0

\* A cache hit recorded with 0 attempts beside a success on a later attempt.
C3_Witness ==
    \E i, j \in DOMAIN records :
        /\ records[i].cache_hit /\ records[i].attempts = 0
        /\ ~records[j].cache_hit /\ records[j].attempts >= 2
        /\ call[records[j].call].calls_made = records[j].attempts

\* C4 as claimed: on success, retry_reasons has exactly attempts - 1 entries.
C4_ReasonsLenIsAttemptsMinusOne ==
    \A i \in DOMAIN records :
        ~records[i].cache_hit
            => Len(records[i].retry_reasons) = records[i].attempts - 1

\* C4 amended: on success, retry_reasons is the concatenation, in attempt
\* order, of the reasons of the attempts - 1 failed attempts; a parse-class
\* failure contributes one reason and a postcondition failure one reason per
\* violated postcondition, so the length is at least attempts - 1, at most
\* (attempts - 1) * max(1, number of postconditions), and exactly
\* attempts - 1 for a step with at most one postcondition.
C4_ReasonsPerViolation ==
    \A i \in DOMAIN records :
        ~records[i].cache_hit =>
            LET r == records[i]
                cr == call[r.call]
                n == Len(InferSpec(r.function).ensure)
            IN  /\ Len(cr.retry_history) = r.attempts - 1
                /\ r.retry_reasons = flatten(cr.retry_history)
                /\ \A k \in DOMAIN cr.retry_history :
                       /\ Len(cr.retry_history[k]) >= 1
                       /\ Len(cr.retry_history[k]) <= Max(1, n)
                       /\ cr.retry_history[k][1][1] \in ParseErrors
                              => Len(cr.retry_history[k]) = 1
                /\ Len(r.retry_reasons) >= r.attempts - 1
                /\ n <= 1 => Len(r.retry_reasons) = r.attempts - 1

\* A success on the third attempt after a parse-class failure and an attempt
\* that violated two postconditions: three attempts, three reasons.
C4_Witness ==
    \E i \in DOMAIN records :
        /\ records[i].attempts = 3
        /\ Len(records[i].retry_reasons) = 3
        /\ \E k \in 1..3 : records[i].retry_reasons[k][1] \in ParseErrors

\* An invocation of `classify` with a tuple fails its precondition `is_list`.
fails_given(cr) == cr.step = "classify" /\ cr.inputs.kind = "tuple"

passes(s, v) ==
    \A k \in DOMAIN InferSpec(s).ensure :
        ensure_fn(InferSpec(s).ensure[k], v, threshold) = "true"

\* C6: a value returned from the session or global cache (the invocation
\* returns in the step in which it starts) passes every postcondition of the
\* step as they are at that moment.
C6_CachedValuePassesEnsure ==
    [][\A c \in Calls :
          (call[c].pc = "idle" /\ call'[c].pc = "returned")
              => /\ call'[c].cache_hit
                 /\ passes(call'[c].step, call'[c].result)]_vars

\* A hit under the strict threshold, and a hit that the strict threshold
\* rejected.
C6_Witness ==
    /\ threshold = 2
    /\ \E c \in Calls : call[c].pc = "returned" /\ call[c].cache_hit
                        /\ call[c].result = 2

\* Invocation c starts in this step, as a session-cached step inside a flow.
starts_in_flow(c) ==
    /\ call[c].pc = "idle"
    /\ call'[c].pc # "idle"
    /\ InferSpec(call'[c].step).cache = "session"
    /\ call'[c].ctx # NoFlow

\* Invocation c is served from the cache in this step.
served(c) ==
    /\ call'[c].pc = "returned"
    /\ call'[c].cache_hit
    /\ call'[c].calls_made = 0
    /\ records' = Append(records, records'[Len(records')])
    /\ records'[Len(records')].call = c
    /\ records'[Len(records')].cache_hit

\* C7 as claimed: a session-cached call inside a flow is served from the
\* cache exactly when an earlier successful call to the same step with the
\* same inputs was made inside the same flow context.
C7_HitIffEarlierSameInputs ==
    [][\A c \in Calls :
          starts_in_flow(c) =>
              (served(c) <=>
                  \E d \in Calls \ {c} :
                      /\ call[d].pc = "returned"
                      /\ call[d].step = call'[c].step
                      /\ call[d].inputs = call'[c].inputs
                      /\ call[d].ctx = call'[c].ctx)]_vars

\* C7 amended: a session-cached call inside a flow whose preconditions pass
\* is served from the cache exactly when the session cache of its own flow
\* context holds, under the key (step, hash of the JSON rendering of the
\* inputs), a value that passes the step's current postconditions; and every
\* key of a flow's session cache was written by a successful call to that
\* step, with inputs of that JSON rendering, inside that same flow context.
C7_HitIffKeyInOwnFlow ==
    /\ [][\A c \in Calls :
            (starts_in_flow(c) /\ ~fails_given(call'[c])) =>
                LET key == <<call'[c].step, call'[c].inputs.items>>
                    cache == flows[call'[c].ctx].session_cache
                IN  served(c) <=>
                        (key \in DOMAIN cache /\ passes(call'[c].step, cache[key]))]_vars
    /\ [](\A f \in FlowIds : \A key \in DOMAIN flows[f].session_cache :
            \E d \in Calls :
                /\ call[d].pc = "returned"
                /\ call[d].ctx = f
                /\ ~call[d].cache_hit
                /\ <<call[d].step, call[d].inputs.items>> = key
                /\ call[d].result = flows[f].session_cache[key])

\* The same step with the same inputs succeeded in two different flows, and
\* in both the provider was called: the key written in the first flow gave no
\* hit in the second.
C7_Witness ==
    \E c, d \in Calls :
        /\ call[c].pc = "returned" /\ call[d].pc = "returned"
        /\ InferSpec(call[c].step).cache = "session"
        /\ call[c].step = call[d].step
        /\ call[c].inputs = call[d].inputs
        /\ call[c].ctx = 1 /\ call[d].ctx = 2
        /\ call[c].calls_made >= 1 /\ call[d].calls_made >= 1

\* C8: while a step that declares its own budget runs a provider call inside
\* a flow that has a budget, the timeout of the call does not reach past the
\* instant at which the flow budget runs out (it is the minimum of the two
\* remaining times).
C8_TimeoutWithinFlowBudget ==
    \A c \in Calls :
        ( /\ call[c].pc = "calling"
          /\ InferSpec(call[c].step).budget # NoBudget
          /\ call[c].ctx # NoFlow
          /\ flows[call[c].ctx].budget # NoBudget )
        => /\ call[c].deadline # None
           /\ call[c].deadline <=
                  flows[call[c].ctx].budget.start_ms + flows[call[c].ctx].budget.ms

\* The budget of frame cr, among flow contexts fl, has run out at time t.
ran_out(cr, fl, t) ==
    LET b == budget_at(cr, fl)
    IN  /\ b # NoBudget
        /\ \/ (b.usd # None /\ b.spent_usd >= b.usd)
           \/ (b.ms # None /\ t - b.start_ms >= b.ms)

\* C9: a provider call is started only when, at that moment, the effective
\* budget has cost left below its ceiling and time left; an invocation that
\* reaches the top of its loop (at its start, or after a failed attempt with
\* attempts left) with the budget run out raises BudgetExceeded there without
\* a provider call; and a second provider call is made only if the first
\* one's cost stayed below the usd ceiling.
C9_BudgetCheckedOnEntry ==
    [][\A c \in Calls :
          LET cr == call'[c]
              b == budget_at(cr, flows')
          IN  /\ cr.calls_made = call[c].calls_made + 1
                     => /\ ~ran_out(cr, flows', now')
                        /\ (call[c].calls_made = 1 /\ b # NoBudget /\ b.usd # None)
                               => cr.total_cost < b.usd
              /\ ( /\ ran_out(cr, flows', now')
                   /\ \/ (call[c].pc = "idle" /\ cr.pc # "idle" /\ ~fails_given(cr)
                              /\ ~cr.cache_hit /\ cr.exc # "PostconditionFailed")
                      \/ (cr.attempt = call[c].attempt + 1
                              /\ cr.attempt <= InferSpec(cr.step).retries) )
                     => /\ cr.pc = "raised"
                        /\ cr.exc = "BudgetExceeded"
                        /\ cr.calls_made = call[c].calls_made]_vars

\* A step with retries left whose first provider call cost as much as the
\* usd ceiling and failed: BudgetExceeded after that one call.
C9_Witness ==
    \E c \in Calls :
        /\ call[c].exc = "BudgetExceeded"
        /\ call[c].calls_made = 1
        /\ call[c].attempt = 1
        /\ call[c].kind = "own"
        /\ call[c].own.spent_usd >= call[c].own.usd
        /\ InferSpec(call[c].step).retries >= 1
        /\ now < call[c].own.start_ms + call[c].own.ms

\* C10: in every step of an invocation that is in its retry loop, the
\* remaining_seconds of its effective budget does not grow, and
\* is_cost_exceeded, when it held before the step, holds after it.
C10_BudgetMonotone ==
    [][\A c \in Calls :
          call[c].pc = "calling" =>
              LET b == budget_at(call[c], flows)
                  b2 == budget_at(call'[c], flows')
              IN  /\ (b # NoBudget /\ b.ms # None)
                         => remaining_seconds(b2, now') <= remaining_seconds(b, now)
                  /\ (b # NoBudget /\ is_cost_exceeded(b))
                         => is_cost_exceeded(b2)]_vars

\* An invocation waiting on its provider call whose envelope has already
\* been charged up to its usd ceiling and has lost time.
C10_Witness ==
    \E c \in Calls :
        /\ call[c].pc = "calling"
        /\ budget_of(call[c]) # NoBudget
        /\ is_cost_exceeded(budget_of(call[c]))
        /\ remaining_seconds(budget_of(call[c]), now) < budget_of(call[c]).ms

\* C11: the prompt compiled for an attempt carries, as its `Previous attempt
\* failed:` bullets, every failure reason of every earlier attempt of the
\* invocation, in attempt order (none for attempt 1).
C11_PromptCarriesAllReasons ==
    \A c \in Calls :
        call[c].pc = "calling"
            => call[c].last_prompt.feedback = flatten(call[c].retry_history)

\* C12: an error raised by the provider call, other than the budget timeout,
\* never reaches the caller as it is: an invocation ends only by returning or
\* with one of the executor's own exceptions.
C12_ProviderErrorIsParseClass ==
    \A c \in Calls :
        call[c].pc = "raised"
            => call[c].exc \in FinalFailures \cup {"PreconditionFailed"}

\* The last attempt of an invocation ended at parse (extraction, JSON,
\* instantiation) rather than at the postcondition check.
last_attempt_parse(cr) ==
    cr.retry_history[Len(cr.retry_history)][1][1] \in ParseErrors

\* C13: an invocation whose retries + 1 attempts all failed raises
\* ParseFailure when its last attempt failed at parse and PostconditionFailed
\* when its last attempt failed at the postcondition check, whatever the
\* earlier attempts did.
C13_FinalErrorFollowsLastAttempt ==
    \A c \in Calls :
        ( /\ call[c].pc = "raised"
          /\ Len(call[c].retry_history) = InferSpec(call[c].step).retries + 1 )
        => /\ call[c].exc \in {"ParseFailure", "PostconditionFailed"}
           /\ call[c].exc = "ParseFailure" <=> last_attempt_parse(call[c])

\* All attempts failed, the first at parse and the last at the postcondition
\* check: PostconditionFailed.
C13_Witness ==
    \E c \in Calls :
        /\ call[c].exc = "PostconditionFailed"
        /\ Len(call[c].retry_history) = InferSpec(call[c].step).retries + 1
        /\ call[c].retry_history[1][1][1] \in ParseErrors
        /\ ~last_attempt_parse(call[c])

\* C14: an invocation makes at most retries + 1 provider calls; each call
\* after the first follows a failed attempt (one retry_history entry per
\* finished failed attempt), the attempt that passes returns at once, and
\* PostconditionFailed raised after the last attempt carries one history
\* entry per provider call made.
C14_AttemptsBounded ==
    \A c \in Calls :
        LET cr == call[c]
            failed == Len(cr.retry_history)
        IN  /\ cr.calls_made <= InferSpec(cr.step).retries + 1
            /\ cr.pc = "calling" => cr.calls_made = failed + 1
            /\ (cr.pc = "returned" /\ ~cr.cache_hit) => cr.calls_made = failed + 1
            /\ (cr.pc = "raised" /\ cr.exc \in {"ParseFailure", "PostconditionFailed"}
                    /\ cr.calls_made > 0)
                   => /\ cr.calls_made = failed
                      /\ failed = InferSpec(cr.step).retries + 1
            /\ (cr.exc = "PostconditionFailed" /\ cr.calls_made > 0)
                   => Len(cr.exc_args.retry_history) = cr.calls_made

\* PostconditionFailed after retries + 1 provider calls, some of which failed
\* at parse, with one history entry per call.
C14_Witness ==
    \E c \in Calls :
        /\ call[c].exc = "PostconditionFailed"
        /\ call[c].calls_made = InferSpec(call[c].step).retries + 1
        /\ Len(call[c].exc_args.retry_history) = call[c].calls_made
        /\ \E i \in DOMAIN call[c].exc_args.retry_history :
               call[c].exc_args.retry_history[i][1][1] \in ParseErrors

\* The executions of the primitive that succeeded, and the size of the group
\* of successes whose agree-on field renders like that of execution i.
succeeded == {i \in 1..prim.n : branch[i].state = "done"}

group_of(i) == {j \in succeeded : str(branch[j].value.label) = str(branch[i].value.label)}

largest_group_reaches(k) == \E i \in succeeded : Cardinality(group_of(i)) >= k

\* The result is the best member of a largest group: the most confident one
\* when the outputs have a confidence, else the first of the group.
result_is_best_of_largest ==
    \E i \in succeeded :
        /\ prim.result = branch[i].value
        /\ \A j \in succeeded : Cardinality(group_of(j)) <= Cardinality(group_of(i))
        /\ IF branch[i].value.confidence # None
           THEN \A j \in group_of(i) : branch[j].value.confidence <= branch[i].value.confidence
           ELSE \A j \in group_of(i) : j >= i

quorum_over == prim.mode = "quorum" /\ prim.pc \in {"returned", "raised"}

\* The branches of the primitive that failed, first in input order and first
\* in completion order.
failed_branches == {i \in 1..prim.n : branch[i].state = "failed"}

first_failure_by_input ==
    branch[CHOOSE i \in failed_branches : \A j \in failed_branches : i <= j].exc

first_failure_by_completion ==
    LET f == SelectSeq(prim.completed, LAMBDA i : branch[i].state = "failed")
    IN  branch[f[1]].exc

\* C15 as claimed: a quorum step starts exactly N executions; when the
\* largest group of successes reaches K the result is the best member of a
\* largest group, and when no group reaches K ConsensusFailure with N, K and
\* all outputs is raised.
C15_QuorumConsensusOrFailure ==
    /\ prim.mode = "quorum"
           => Cardinality({i \in Branches : branch[i].state # "unused"}) = prim.n
    /\ quorum_over =>
           IF largest_group_reaches(prim.require)
           THEN prim.pc = "returned" /\ result_is_best_of_largest
           ELSE /\ prim.pc = "raised"
                /\ prim.exc = ConsensusFailure(prim.n, prim.require,
                                               [i \in 1..prim.n |-> branch[i]])

\* C15 amended: as claimed when at least one execution succeeds; when none
\* succeeds the exception of the first execution (in start order) is raised
\* instead of ConsensusFailure.
C15_QuorumConsensusIfAnySuccess ==
    /\ prim.mode = "quorum"
           => Cardinality({i \in Branches : branch[i].state # "unused"}) = prim.n
    /\ quorum_over =>
           IF largest_group_reaches(prim.require)
           THEN prim.pc = "returned" /\ result_is_best_of_largest
           ELSE /\ prim.pc = "raised"
                /\ IF succeeded # {}
                   THEN prim.exc = ConsensusFailure(prim.n, prim.require,
                                                    [i \in 1..prim.n |-> branch[i]])
                   ELSE prim.exc = first_failure_by_input

\* A quorum returned a member of the agreeing group that is not its first:
\* a later execution with a higher confidence, whose label has another type
\* but the same rendering.
C15_Witness ==
    /\ prim.mode = "quorum"
    /\ prim.pc = "returned"
    /\ \E i, j \in succeeded :
           /\ i < j
           /\ j \in group_of(i)
           /\ branch[i].value.label # branch[j].value.label
           /\ branch[i].value.confidence < branch[j].value.confidence
           /\ prim.result = branch[j].value
           /\ Cardinality(group_of(i)) < prim.n

\* C16: when fewer than K executions of a quorum step succeed and some
\* execution failed, the caller gets the first failure exception of the
\* failed executions.
C16_FewSuccessesRaiseFirstFailure ==
    ( /\ quorum_over
      /\ Cardinality(succeeded) < prim.require
      /\ failed_branches # {} )
    => /\ prim.pc = "raised"
       /\ prim.exc \in {first_failure_by_input, first_failure_by_completion}

\* C17: parallel(require="all") whose branches all succeed returns the
\* results in the order of the input branches.
C17_AllReturnsInputOrder ==
    (prim.mode = "all" /\ prim.pc = "returned")
        => /\ Len(prim.result) = prim.n
           /\ \A i \in 1..prim.n : prim.result[i] = branch[i].value
           /\ \A i \in 1..prim.n : branch[i].state = "done"

\* parallel(all) returned after its last branch finished first and its
\* branches returned different values.
C17_Witness ==
    /\ prim.mode = "all"
    /\ prim.pc = "returned"
    /\ prim.n = MaxBranches
    /\ prim.completed[1] = prim.n
    /\ \A i, j \in 1..prim.n : i # j => branch[i].value # branch[j].value

\* C18: when a branch of parallel(require="all") fails, the branches still
\* running are cancelled, no tuple is returned, and the caller gets the first
\* branch failure.
C18_AllRaisesFirstFailure ==
    /\ (prim.mode = "all" /\ prim.aborting) => running(branch, 1..prim.n) = {}
    /\ (prim.mode = "all" /\ prim.pc # "waiting" /\ failed_branches # {})
           => /\ prim.pc = "raised"
              /\ prim.result = << >>
              /\ prim.exc \in {first_failure_by_input, first_failure_by_completion}

\* The first branch of the primitive that finished successfully.
first_success_by_completion ==
    LET d == SelectSeq(prim.completed, LAMBDA i : branch[i].state = "done")
    IN  branch[d[1]].value

\* C19: parallel(require="any") and race return the value of the first
\* branch that completed successfully, with no branch left running; when
\* every branch failed they raise one of the branches' failures.
C19_AnyReturnsFirstSuccess ==
    /\ (prim.mode \in {"any", "race"} /\ prim.pc = "returned")
           => /\ running(branch, 1..prim.n) = {}
              /\ succeeded # {}
              /\ prim.result = first_success_by_completion
    /\ (prim.mode \in {"any", "race"} /\ prim.pc = "raised")
           => /\ failed_branches = 1..prim.n
              /\ \E i \in failed_branches : prim.exc = branch[i].exc

\* The values of the first k branches that finished successfully, in the
\* order in which they finished.
first_successes_by_completion(k) ==
    LET d == SelectSeq(prim.completed, LAMBDA i : branch[i].state = "done")
    IN  [x \in 1..k |-> branch[d[x]].value]

\* C20: parallel(require=N), N > 0, returns the first N successes in
\* completion order when at least N branches succeed, and otherwise raises
\* the first failure.
C20_NReturnsFirstNByCompletion ==
    (prim.mode = "n" /\ prim.pc \in {"returned", "raised"} /\ prim.require <= prim.n)
        => IF Cardinality(succeeded) >= prim.require
           THEN /\ prim.pc = "returned"
                /\ prim.result = first_successes_by_completion(prim.require)
           ELSE /\ prim.pc = "raised"
                /\ prim.exc \in {first_failure_by_input, first_failure_by_completion}

\* C21: parallel(require=0) returns exactly one wrapper per input branch, in
\* input order, Success(value) for a branch that returned and Failure(exc)
\* for a branch that raised or was cancelled, and the call itself never
\* raises, with or without a validator.
C21_CollectWrapsEveryBranch ==
    (prim.mode = "collect" /\ prim.pc \notin {"idle", "waiting"}) =>
        /\ prim.pc = "returned"
        /\ Len(prim.result) = prim.n
        /\ \A i \in 1..prim.n :
               prim.result[i] = IF branch[i].state = "done"
                                THEN Success(branch[i].value)
                                ELSE Failure(branch[i].exc)

\* C22: when the task awaiting parallel or race is cancelled, the
\* cancellation reaches the caller and, once the primitive has exited, no
\* branch is still running.
C22_CancelReachesCallerAndStopsBranches ==
    (prim.cancel_requested /\ prim.pc \notin {"waiting", "cancelling"}) =>
        /\ prim.pc = "cancelled"
        /\ running(branch, 1..prim.n) = {}

\* What agent i of round k + 1 must be given: the round-k outputs of every
\* other agent, in agent order.
others_of(round_outputs, i) ==
    LET idx == SelectSeq([k \in 1..Len(round_outputs) |-> k], LAMBDA k : k # i)
    IN  [k \in 1..Len(idx) |-> round_outputs[idx[k]]]

agreement_key(a) ==
    IF \E i \in 1..dbt.n : dbt.agree_on[i] # "" THEN a.label.text ELSE render(a)

\* C24: in a debate of R rounds in which no agent fails, synthesize is
\* called exactly once, after round R, with the topic, a history of exactly
\* R rounds each holding one output per agent in agent order, and
\* converged = true iff all outputs of round R agree; debate returns
\* the result of synthesize.
C24_SynthesizeOnceAfterLastRound ==
    /\ Len(dbt.synthesize_calls) <= 1
    /\ dbt.pc \in {"synthesize", "returned"} <=> Len(dbt.synthesize_calls) = 1
    /\ dbt.pc = "round" /\ (\A i \in 1..dbt.n : dbt.task[i].state # "failed") =>
           dbt.synthesize_calls = << >>
    /\ dbt.synthesize_calls # << >> =>
           LET c == dbt.synthesize_calls[1]
               last == c.arguments[dbt.rounds]
           IN  /\ c.topic = dbt.topic
               /\ Len(c.arguments) = dbt.rounds
               /\ \A k \in 1..dbt.rounds : Len(c.arguments[k]) = dbt.n
               /\ c.arguments = dbt.history
               /\ \A i \in 1..dbt.n : last[i] = dbt.task[i].value
               /\ c.converged <=>
                      \A i, j \in 1..dbt.n : agreement_key(last[i]) = agreement_key(last[j])
               /\ dbt.pc = "returned" => dbt.result = c.returned

C24_Witness ==
    /\ dbt.pc = "returned"
    /\ dbt.rounds >= 2
    /\ dbt.n >= 2
    /\ dbt.agree_on[1] = ""
    /\ dbt.agree_on[2] = "label"
    /\ dbt.synthesize_calls[1].converged
    /\ dbt.history[dbt.rounds][1] # dbt.history[dbt.rounds][2]
    /\ dbt.history[1] # dbt.history[2]

\* C25: a refine-wrapped step invokes the step executor at most
\* max_iterations times; it returns the first output for which `until` is
\* true, without calling `feedback` on it; if `until` is false for all
\* max_iterations outputs it raises ConvergenceFailure whose history holds
\* exactly those outputs in iteration order.
C25_RefineBoundedAndFirstAccepted ==
    LET rejected == SelectSeq(rfn.history, LAMBDA r : ~until(r))
    IN  /\ Len(rfn.calls) <= rfn.max_iterations
        /\ Len(rfn.history) <= Len(rfn.calls)
        /\ rfn.feedback_calls = rejected
        /\ rfn.pc = "returned" =>
               /\ rfn.history = Append(rejected, rfn.result)
               /\ until(rfn.result)
        /\ (rfn.pc # "idle" /\ Len(rejected) = rfn.max_iterations) =>
               /\ rfn.pc = "raised"
               /\ rfn.exc = ConvergenceFailure("step", rfn.max_iterations, rejected)
               /\ Len(rfn.exc.args[3]) = rfn.max_iterations
        /\ (rfn.pc = "raised" /\ rfn.exc.type = "ConvergenceFailure") =>
               Len(rejected) = rfn.max_iterations

C25_Witness ==
    /\ rfn.pc = "raised"
    /\ rfn.exc.type = "ConvergenceFailure"
    /\ rfn.max_iterations = MaxIterations
    /\ rfn.history[1] # rfn.history[2]

\* The calls of resolve that set the future.
completing == SelectSeq(review.resolves, LAMBDA r : r.outcome = "set")

well_typed(decision) ==
    review.decision_type = "object" \/ decision.value.type = review.decision_type

\* C26: await_human with a timeout whose review is not resolved before the
\* timeout elapses ends in exactly one of two ways: with on_timeout =
\* "raise" it raises HITLTimeoutError carrying the review id of the emitted
\* review; with any other on_timeout it returns HumanDecision(value =
\* on_timeout, reviewer = "auto", rationale = "timeout") carrying that review
\* id.  Without a timeout it never ends by timeout.
C26_TimeoutRaisesOrFallsBack ==
    /\ (review.future.state = "cancelled" /\ review.pc \notin {"idle", "waiting"}) =>
           IF review.on_timeout = Raise
           THEN /\ review.pc = "raised"
                /\ review.exc = HITLTimeoutError(review.review_id)
           ELSE /\ review.pc = "returned"
                /\ review.result.value = review.on_timeout
                /\ review.result.reviewer = "auto"
                /\ review.result.rationale = "timeout"
                /\ review.result.review_id = review.review_id
    /\ review.timeout = None =>
           /\ review.future.state # "cancelled"
           /\ review.pc # "raised"
           /\ review.pc = "returned" => review.result.rationale # "timeout"

C26_Witness ==
    /\ review.pc = "returned"
    /\ review.future.state = "cancelled"
    /\ review.result.value.type = "int"
    /\ review.review_id = 2

\* C27: resolve with a decision whose value is not an instance of
\* decision_type raises TypeError to the sink and leaves the review
\* pending, so a later correctly typed resolve still completes the review
\* and a decision of the sink that await_human returns is that one.
C27_WrongTypeLeavesReviewPending ==
    /\ \A k \in DOMAIN review.resolves :
           ~well_typed(review.resolves[k].decision) <=>
               review.resolves[k].outcome = "TypeError"
    /\ review.future.state = "pending" =>
           \A k \in DOMAIN review.resolves : review.resolves[k].outcome = "TypeError"
    /\ \A k \in DOMAIN review.resolves :
           (/\ well_typed(review.resolves[k].decision)
            /\ \A j \in 1..(k - 1) : review.resolves[j].outcome = "TypeError"
            /\ review.future.state # "cancelled") =>
               /\ review.resolves[k].outcome = "set"
               /\ review.future = [state |-> "done",
                                   result |-> review.resolves[k].decision]
               /\ (review.pc = "returned" /\ ~review.must_cancel) =>
                      review.result = review.resolves[k].decision

C27_Witness ==
    /\ review.pc = "returned"
    /\ Len(review.resolves) >= 2
    /\ review.resolves[1].outcome = "TypeError"
    /\ review.result = review.resolves[2].decision

\* C28: a PendingReview is completed at most once: the first correctly
\* typed resolve fixes the decision await_human returns, and every resolve
\* after the review is completed, or after await_human has timed out, is a
\* no-op that neither raises nor changes the outcome.
C28_CompletedAtMostOnce ==
    /\ Len(completing) <= 1
    /\ (completing # << >> /\ review.pc \notin {"idle", "waiting"}) =>
           /\ review.pc = "returned"
           /\ review.result = completing[1].decision
    /\ \A k \in DOMAIN review.resolves :
           (\E j \in 1..(k - 1) : review.resolves[j].outcome = "set") =>
               review.resolves[k].outcome = "noop"

\* C29: a step_done call for the current step counts as one attempt; a
\* result that passes the output schema and the ensure expression advances
\* the cursor by exactly one and is stored as the step's output; a result
\* that fails while the attempt count is below the retries ceiling leaves
\* cursor and outputs alone and is answered schema_failed or ensure_failed
\* with retries_remaining = retries - attempts; a result that fails with the
\* attempt count at the ceiling is answered retries_exhausted and leaves the
\* cursor alone.
C29_StepDoneOutcome ==
    [][ ( /\ ctl.status = "active"
          /\ ctl' # ctl
          /\ ctl.current_idx < Len(ctl.ordered_steps)
          /\ ctl'.request.step_id = ctl.ordered_steps[ctl.current_idx + 1] )
        => LET id == ctl.ordered_steps[ctl.current_idx + 1]
               result == ctl'.request.result
               retries == ctl.flow.retries[id]
               attempts == ctl.attempts[id] + 1
               accepted == "text" \in result.fields /\ result.text # ""
               schema_fails == ctl.flow.output_schema[id]
                               /\ "text" \notin result.fields
           IN  /\ ctl'.attempts = [ctl.attempts EXCEPT ![id] = attempts]
               /\ accepted =>
                    /\ ctl'.current_idx = ctl.current_idx + 1
                    /\ ctl'.step_outputs = [ctl.step_outputs EXCEPT ![id] = result]
               /\ (~accepted /\ attempts < retries) =>
                    /\ ctl'.current_idx = ctl.current_idx
                    /\ ctl'.step_outputs = ctl.step_outputs
                    /\ ctl'.response.status =
                         IF schema_fails THEN "schema_failed" ELSE "ensure_failed"
                    /\ ctl'.response.step_id = id
                    /\ ctl'.response.retries_remaining = retries - attempts
               /\ (~accepted /\ attempts = retries) =>
                    /\ ctl'.response.error_type = "retries_exhausted"
                    /\ ctl'.current_idx = ctl.current_idx
                    /\ ctl'.step_outputs = ctl.step_outputs ]_vars

\* C29: the first step was accepted on its second attempt and the second
\* step ran out of retries on a schema violation.
C29_Witness ==
    /\ ctl.status = "active"
    /\ ctl.current_idx = 1
    /\ ctl.attempts["a"] = 2
    /\ ctl.step_outputs["a"] \in Results
    /\ ctl.flow.retries["b"] = 2
    /\ ctl.attempts["b"] = 2
    /\ ctl.flow.output_schema["b"]
    /\ ctl.response.error_type = "retries_exhausted"

\* The ids a step of the flow depends on, explicitly or through a reference.
depends(flow, id) == flow.depends_on[id] \cup flow.refs[id]

\* The dependency graph of the flow has a cycle.
cyclic(flow) ==
    LET after(S) == S \cup UNION {depends(flow, y) : y \in S \cap StepIds}
    IN  \E id \in {StepOrder[k] : k \in 1..flow.n} :
            id \in after(after(depends(flow, id)))

\* C30: planning fails with an execution error and dispatches nothing, and it
\* does so whenever the dependency graph has a cycle; or it fixes an order
\* that holds every step exactly once with every step after the steps it
\* depends on or reads, and a step is handed to the driver only when all of
\* them have been accepted.
C30_PlanOrdersOrFails ==
    /\ ctl.status = "error" =>
         /\ ctl.response.status = "error"
         /\ ctl.response.error_type = "execution_error"
         /\ ctl.ordered_steps = << >>
         /\ ctl.records = << >>
    /\ (ctl.status # "none" /\ cyclic(ctl.flow)) => ctl.status = "error"
    /\ ctl.status = "active" =>
         LET ids == {StepOrder[k] : k \in 1..ctl.flow.n}
             accepted == {ctl.ordered_steps[k] : k \in 1..ctl.current_idx}
         IN  /\ Len(ctl.ordered_steps) = ctl.flow.n
             /\ {ctl.ordered_steps[k] : k \in 1..ctl.flow.n} = ids
             /\ \A k \in 1..ctl.flow.n :
                    depends(ctl.flow, ctl.ordered_steps[k])
                        \subseteq {ctl.ordered_steps[j] : j \in 1..(k - 1)}
             /\ \A id \in accepted : ctl.step_outputs[id] \in Results
             /\ ctl.response.status = "execute_step" =>
                    depends(ctl.flow, ctl.response.step_id) \subseteq accepted

\* C30: a flow of three steps whose order differs from the order it lists
\* them in because of a reference, driven to its end.
C30_Witness ==
    /\ ctl.status = "active"
    /\ ctl.flow.n = 3
    /\ ctl.ordered_steps # StepOrder
    /\ \A id \in StepIds : ctl.flow.depends_on[id] = {}
    /\ ctl.current_idx = 3
    /\ ctl.response.status = "complete"

\* C31: no controller operation lets an exception escape: whatever the
\* input and the flow state, unresolvable input references included, the
\* caller gets a step descriptor, a status response or a structured error.
C31_NoExceptionEscapes ==
    ctl.response.status # "raised"

\* C32: step_done validates the output schema before the ensure
\* expressions: a result that violates the output_schema of the current step
\* is answered schema_failed, or retries_exhausted, with the schema
\* violations only, and no ensure expression is evaluated in that call.
C32_SchemaBeforeEnsure ==
    [][ ( /\ ctl.status = "active"
          /\ ctl' # ctl
          /\ ctl.current_idx < Len(ctl.ordered_steps)
          /\ ctl'.request.step_id = ctl.ordered_steps[ctl.current_idx + 1]
          /\ ctl.flow.output_schema[ctl'.request.step_id]
          /\ "text" \notin ctl'.request.result.fields )
        => /\ \/ ctl'.response.status = "schema_failed"
              \/ ctl'.response.error_type = "retries_exhausted"
           /\ ctl'.response.violations =
                  <<"output_schema violation: text is a required property">>
           /\ ~ctl'.ensure_evaluated ]_vars

\* C32: a result without the required field was answered schema_failed.
C32_Witness ==
    /\ ctl.response.status = "schema_failed"
    /\ "text" \notin ctl.request.result.fields
    /\ ctl.flow.output_schema[ctl.request.step_id]

\* C33: with a tracer hook configured, the hook is called exactly once for
\* every trace record the step executor writes, the records of cache hits
\* included: every invocation has made as many hook calls as it has written
\* trace records.
C33_HookOncePerTraceRecord ==
    \A c \in Calls :
        call[c].spans = Len(SelectSeq(records, LAMBDA r : r.call = c))

\* C34: a flow entered by a task becomes the flow context of that task, with
\* a fresh budget clone and an empty session cache of its own; a step
\* invoked in a task gets the id of the task's flow and looks its result up
\* in that flow's session cache; an invocation changes the budget and the
\* cache of its own flow only; and when the flow exits, the task's flow
\* context is again what it was when the flow was entered.
C34_FlowContextScoped ==
    [][ /\ \A f \in FlowIds :
             /\ (flows[f].state = "unused" /\ flows'[f].state = "active") =>
                   LET t == flows'[f].task
                   IN  /\ flow_ctx'[t] = f
                       /\ flows'[f].token = flow_ctx[t]
                       /\ flows'[f].session_cache = EmptyDict
                       /\ flows'[f].budget # NoBudget =>
                              /\ flows'[f].budget.spent_usd = 0
                              /\ flows'[f].budget.start_ms = now
             /\ (flows[f].state = "active" /\ flows'[f].state = "active") =>
                   /\ flows'[f].token = flows[f].token
                   /\ flows'[f].task = flows[f].task
             /\ (flows[f].state = "active" /\ flows'[f].state # "active") =>
                   flow_ctx'[flows[f].task] = flows[f].token
        /\ \A c \in Calls :
             /\ (call[c].pc = "idle" /\ call'[c].pc # "idle") =>
                   LET f == call'[c].ctx
                       key == session_key(call'[c].step, call'[c].inputs)
                   IN  /\ \E t \in FlowIds : f = flow_ctx[t]
                       /\ f # NoFlow =>
                            /\ flows[f].state = "active"
                            /\ call'[c].pc = "calling" =>
                                   key \notin DOMAIN flows[f].session_cache
                            /\ call'[c].cache_hit =>
                                   /\ key \in DOMAIN flows[f].session_cache
                                   /\ call'[c].result = flows[f].session_cache[key]
             /\ call'[c] # call[c] =>
                   \A g \in FlowIds \ {call'[c].ctx} : flows'[g] = flows[g] ]_vars

\* C34: a flow nested in another has exited and the task is back in the
\* outer flow, where a step hit the outer flow's session cache while the
\* budget of the outer flow carries a cost.
C34_Witness ==
    /\ flows[1].state = "active"
    /\ flows[2].state = "exited"
    /\ flow_ctx[1] = 1
    /\ flows[1].budget # NoBudget
    /\ flows[1].budget.spent_usd > 0
    /\ \E c \in Calls : call[c].cache_hit /\ call[c].ctx = 1

\* C35: in a refine-wrapped step the output of every iteration after the
\* first comes from a provider call whose prompt carried the feedback of the
\* previous iteration's output, whatever the cache policy of the step: it is
\* never the cache entry an earlier iteration stored.
C35_EveryIterationReinvokes ==
    \A k \in 2..Len(rfn.history) :
        /\ ~rfn.cache_hits[k]
        /\ rfn.calls[k] = << <<"Previous output had the following issues:",
                               feedback(rfn.history[k - 1])>> >>

\* Invocation c is a provider call of a session-cached step that ended in
\* success inside a flow.
provider_success(c) ==
    /\ call[c].pc = "returned"
    /\ ~call[c].cache_hit
    /\ call[c].calls_made >= 1
    /\ InferSpec(call[c].step).cache = "session"
    /\ call[c].ctx # NoFlow

\* C37 as claimed: for a step with cache policy session, at most one provider
\* call that ends in success is made per cache key within one flow, also when
\* several calls with the same inputs are started concurrently in that flow.
C37_OneSuccessPerKey ==
    \A c, d \in Calls :
        ( /\ provider_success(c) /\ provider_success(d)
          /\ call[c].ctx = call[d].ctx
          /\ session_key(call[c].step, call[c].inputs)
                 = session_key(call[d].step, call[d].inputs) )
            => c = d

\* C37 amended: a successful provider call of a session-cached step inside a
\* flow leaves its key in the session cache of that flow, a key stays in the
\* cache of a flow for as long as the flow is active, and a call whose
\* preconditions pass and which starts when its key is in the cache of its
\* flow makes no provider call: it returns the cached value or raises
\* PostconditionFailed.  (Calls with the same key that overlap each call the
\* provider.)
C37_NoCallOnceStored ==
    /\ [](\A c \in Calls :
            (provider_success(c) /\ flows[call[c].ctx].state = "active") =>
                session_key(call[c].step, call[c].inputs)
                    \in DOMAIN flows[call[c].ctx].session_cache)
    /\ [][\A f \in FlowIds :
            (flows[f].state = "active" /\ flows'[f].state = "active") =>
                DOMAIN flows[f].session_cache \subseteq DOMAIN flows'[f].session_cache]_vars
    /\ [][\A c \in Calls :
            ( /\ starts_in_flow(c)
              /\ ~fails_given(call'[c])
              /\ session_key(call'[c].step, call'[c].inputs)
                     \in DOMAIN flows[call'[c].ctx].session_cache ) =>
                /\ call'[c].calls_made = 0
                /\ \/ served(c)
                   \/ /\ call'[c].pc = "raised"
                      /\ call'[c].exc = "PostconditionFailed"
                      /\ records' = records]_vars

\* Inside one flow a provider call succeeded and stored its value, and a
\* later call with the same key ended without a provider call.
C37_Witness ==
    \E c, d \in Calls :
        /\ provider_success(d)
        /\ call[c].ctx = call[d].ctx
        /\ call[c].step = call[d].step
        /\ call[c].inputs = call[d].inputs
        /\ call[c].calls_made = 0
        /\ call[c].pc \in {"returned", "raised"}
        /\ call[c].exc # "PreconditionFailed"

\* Invocation c starts in this step, its preconditions pass, and the cache
\* its policy selects holds under its key a value that fails the step's
\* current postconditions.
stale_hit(c) ==
    /\ call[c].pc = "idle"
    /\ call'[c].pc # "idle"
    /\ ~fails_given(call'[c])
    /\ key_of(call'[c].step, call'[c].inputs)
           \in DOMAIN cache_of(call'[c].step, call'[c].ctx)
    /\ ~passes(call'[c].step,
               cache_of(call'[c].step, call'[c].ctx)[key_of(call'[c].step, call'[c].inputs)])

\* Invocation c ended in this step in PostconditionFailed with the violations
\* of the cached value, without a provider call, a trace record or a change
\* to any cache.
fails_on_cached(c) ==
    /\ call'[c].pc = "raised"
    /\ call'[c].exc = "PostconditionFailed"
    /\ call'[c].calls_made = 0
    /\ call'[c].exc_args.violations =
           violations(InferSpec(call'[c].step).ensure,
                      cache_of(call'[c].step, call'[c].ctx)[key_of(call'[c].step, call'[c].inputs)],
                      threshold)
    /\ UNCHANGED <<records, flows, process_session_cache, global_cache>>

\* C36 as claimed: a cache hit whose value fails the current postconditions
\* raises PostconditionFailed without a provider call or a trace record and
\* leaves the entry in place, and every later call with the same key in the
\* same scope fails the same way while the postconditions stay as they are
\* (here they change once, before the first such failure).
C36_StaleHitFailsForGood ==
    /\ [][\A c \in Calls : stale_hit(c) => fails_on_cached(c)]_vars
    /\ [][\A c, d \in Calls :
            ( /\ c # d
              /\ call[c].pc = "raised"
              /\ call[c].exc = "PostconditionFailed"
              /\ call[c].calls_made = 0
              /\ call[d].pc = "idle" /\ call'[d].pc # "idle"
              /\ call'[d].step = call[c].step
              /\ call'[d].inputs = call[c].inputs
              /\ call'[d].ctx = call[c].ctx ) =>
                /\ call'[d].pc = "raised"
                /\ call'[d].exc = "PostconditionFailed"
                /\ call'[d].exc_args = call[c].exc_args]_vars

\* C36 amended: a cache hit whose value fails the current postconditions
\* raises PostconditionFailed with that value's violations, without a
\* provider call or a trace record, and leaves every cache as it was; and
\* while the scope of a cache lasts (the flow runs, or the process for the
\* process-wide caches) the value under a key changes only when a provider
\* call for that key, started before the key held that value, ends in success
\* and stores its own value.
C36_StaleHitFailsUntilOverwritten ==
    /\ [][\A c \in Calls : stale_hit(c) => fails_on_cached(c)]_vars
    /\ [][\A s \in StepNames, i \in Inputs, f \in FlowIds \cup {NoFlow} :
            LET key == key_of(s, i)
                old == cache_of(s, f)
                new == IF InferSpec(s).cache = "global" THEN global_cache'
                       ELSE IF f # NoFlow THEN flows'[f].session_cache
                       ELSE process_session_cache'
                alive == \/ InferSpec(s).cache = "global"
                         \/ f = NoFlow
                         \/ flows'[f].state = "active"
            IN  (alive /\ key \in DOMAIN old
                       /\ (key \notin DOMAIN new \/ new[key] # old[key])) =>
                    \E d \in Calls :
                        /\ call[d].pc = "calling"
                        /\ call'[d].pc = "returned"
                        /\ call[d].step = s
                        /\ key_of(s, call[d].inputs) = key
                        /\ InferSpec(s).cache = "session" => call[d].ctx = f
                        /\ key \in DOMAIN new
                        /\ new[key] = call'[d].result]_vars

\* An invocation has failed on a cached value, the value is still in the
\* cache of its scope and still fails the postconditions, and another
\* invocation with the same key is in flight.
C36_Witness ==
    \E c, d \in Calls :
        /\ call[c].pc = "raised"
        /\ call[c].exc = "PostconditionFailed"
        /\ call[c].calls_made = 0
        /\ key_of(call[c].step, call[c].inputs) \in DOMAIN cache_of(call[c].step, call[c].ctx)
        /\ ~passes(call[c].step,
                   cache_of(call[c].step, call[c].ctx)[key_of(call[c].step, call[c].inputs)])
        /\ call[d].pc = "calling"
        /\ call[d].step = call[c].step
        /\ call[d].inputs = call[c].inputs
        /\ call[d].ctx = call[c].ctx

\* C38: once step_done has answered retries_exhausted for a step, a later
\* step_done leaves the cursor and the stored step outputs as they were; no
\* step is accepted with more attempts than its retries ceiling, and no
\* response carries a negative retries_remaining.
C38_ExhaustedIsTerminal ==
    /\ [][ctl.response.error_type = "retries_exhausted" =>
            /\ ctl'.current_idx = ctl.current_idx
            /\ ctl'.step_outputs = ctl.step_outputs]_vars
    /\ [](\A id \in StepIds :
            ctl.step_outputs[id] # NoResult =>
                ctl.attempts[id] <= ctl.flow.retries[id])
    /\ [](ctl.response.retries_remaining >= 0)

\* C39: the trace of the controller flow holds one StepRecord per accepted
\* step, in acceptance order: there are as many records as the cursor has
\* advanced, record i is the record of the i-th step of the order, and the
\* steps_completed that audit reports exceeds neither the number of accepted
\* steps nor the number of steps of the flow.
C39_OneRecordPerAcceptedStep ==
    /\ Len(ctl.records) = ctl.current_idx
    /\ \A i \in DOMAIN ctl.records :
           /\ i <= Len(ctl.ordered_steps)
           /\ ctl.records[i].step_id = ctl.ordered_steps[i]
    /\ ctl.response.steps_completed <= ctl.current_idx
    /\ ctl.response.steps_completed <= Len(ctl.ordered_steps)

\* C40: every HumanDecision that await_human returns, whether it is the
\* decision the sink resolved the review with or the one synthesised from
\* the on_timeout fallback, carries a value of the requested decision_type.
C40_ReturnedDecisionIsTyped ==
    review.pc = "returned" => well_typed(review.result)

====
